---- MODULE Spec2Model ----
(***************************************************************************)
(* A model of BoarBot's aggregate data store (DataHandlers.ts) and of its  *)
(* weighted boar selection (BoarUtils.ts).                                 *)
(*                                                                         *)
(* JavaScript objects whose key order is observable in the persisted JSON  *)
(* (the top level of a document) are sequences of <<key, value>> pairs in  *)
(* insertion order.  userData maps, whose order no operation reads, are    *)
(* functions.  undefined is NoUser for a topUser and Undefined elsewhere.  *)
(***************************************************************************)
EXTENDS Integers, Sequences, FiniteSets, TLC

VARIABLES
    config,     \* the BotConfig in force
    files,      \* the data folder at hand: GlobalFile (or guild ID) -> document
    users,      \* the user data folder: user ID -> the profile fields the store writes
    now,        \* Date.now(), in ticks
    last,       \* the last call made on the store
    call        \* the caller: the getRandBoars call in progress (its arguments,
                \* locals and position), or the guild data a caller holds

vars == <<config, files, users, now, last, call>>

(***************************************************************************)
(* Bounds of the model.                                                    *)
(***************************************************************************)
MaxStat == 1

Users == {1, 2}
NoUser == 0
Stats == -1..MaxStat

(***************************************************************************)
(* JavaScript objects as insertion-ordered sequences of <<key, value>>.    *)
(***************************************************************************)
Keys(o) == {o[i][1] : i \in DOMAIN o}
KeySeq(o) == [i \in DOMAIN o |-> o[i][1]]
Has(o, k) == k \in Keys(o)
Get(o, k) == o[CHOOSE i \in DOMAIN o : o[i][1] = k][2]
Put(o, k, v) ==
    IF Has(o, k)
    THEN [i \in DOMAIN o |-> IF o[i][1] = k THEN <<k, v>> ELSE o[i]]
    ELSE Append(o, <<k, v>>)
Del(o, k) == SelectSeq(o, LAMBDA e : e[1] # k)
Includes(s, x) == \E i \in DOMAIN s : s[i] = x

PutMap(f, k, v) == [x \in (DOMAIN f) \cup {k} |-> IF x = k THEN v ELSE f[x]]
DelMap(f, k) == [x \in (DOMAIN f) \ {k} |-> f[x]]
EmptyMap == [x \in {} |-> 0]

(***************************************************************************)
(* The global files and their default contents.                            *)
(***************************************************************************)
GlobalFile == {"Items", "Leaderboards", "BannedUsers", "Powerups", "Quest"}

BoardIDs ==
    <<"bucks", "total", "uniques", "uniquesSB", "streak", "attempts",
      "topAttempts", "giftsUsed", "multiplier", "fastest">>

NewBoardData == [userData |-> EmptyMap, topUser |-> NoUser]

Missing == [status |-> "missing", data |-> <<>>]
Corrupt == [status |-> "corrupt", data |-> <<>>]
Document(data) == [status |-> "ok", data |-> data]

(***************************************************************************)
(* JSON.stringify followed by JSON.parse: a property whose value is        *)
(* undefined is dropped (so a topUser reads back undefined), an undefined  *)
(* array element is written as null.                                       *)
(***************************************************************************)
Undefined == "undefined"
Null == "null"

JsonArray(a) == [i \in DOMAIN a |-> IF a[i] = Undefined THEN Null ELSE a[i]]

JsonRoundTrip(data, file) ==
    IF file = "Quest"
    THEN [data EXCEPT !.curQuestIDs = JsonArray(@)]
    ELSE data

\* DataHandlers.saveGlobalData: overwrite the document of `file`.
SaveGlobalData(fs, data, file) ==
    [fs EXCEPT ![file] = Document(JsonRoundTrip(data, file))]

NewItemData == [buyers |-> <<>>, sellers |-> <<>>]
NewItemsData == [powerups |-> <<>>]
NewPowerupData == [messagesInfo |-> <<>>]
QuestLen == 3
NewQuestData == [questsStartTimestamp |-> 0, curQuestIDs |-> [i \in 1..QuestLen |-> ""]]

\* getGlobalData, the switch that synthesizes a missing document.
DefaultData(cfg, file) ==
    CASE file = "Items" ->
            [NewItemsData EXCEPT !.powerups =
                [i \in DOMAIN cfg.powerups |-> <<cfg.powerups[i], NewItemData>>]]
      [] file = "Leaderboards" ->
            [i \in DOMAIN cfg.choices |-> <<cfg.choices[i], NewBoardData>>]
      [] file = "BannedUsers" -> <<>>
      [] file = "Powerups" -> NewPowerupData
      [] file = "Quest" -> NewQuestData

\* The default returned and not saved.
LoadGlobalDataNoSave(fs, cfg, file) ==
    IF fs[file].status = "ok"
    THEN [data |-> fs[file].data, files |-> fs, created |-> FALSE]
    ELSE [data |-> DefaultData(cfg, file), files |-> fs, created |-> TRUE]

\* getGlobalData up to `updating`: read the document; when it is missing or
\* does not parse, create the default and save it.
LoadGlobalData(fs, cfg, file) ==
    IF fs[file].status = "ok"
    THEN [data |-> fs[file].data, files |-> fs, created |-> FALSE]
    ELSE [data |-> DefaultData(cfg, file),
          files |-> SaveGlobalData(fs, DefaultData(cfg, file), file),
          created |-> TRUE]

(***************************************************************************)
(* The leaderboards.                                                       *)
(***************************************************************************)
Username(userID) == userID

\* SetEntry with the comparison off by one: a value of 0 is stored.
SetEntryStoresZero(board, userID, value) ==
    [board EXCEPT !.userData =
        IF value >= 0
        THEN PutMap(@, userID, <<Username(userID), value>>)
        ELSE DelMap(@, userID)]

\* One metric of updateLeaderboardData: store [username, value] when the
\* value is positive, delete the user's entry otherwise.
SetEntry(board, userID, value) ==
    [board EXCEPT !.userData =
        IF value > 0
        THEN PutMap(@, userID, <<Username(userID), value>>)
        ELSE DelMap(@, userID)]

DeleteEntry(board, userID) == [board EXCEPT !.userData = DelMap(@, userID)]

\* The cleared topUser given to the highest remaining scorer.
ClearTopUserRecomputes(board, userID) ==
    [board EXCEPT !.topUser =
        IF @ # userID THEN @
        ELSE IF DOMAIN board.userData = {} THEN NoUser
        ELSE CHOOSE u \in DOMAIN board.userData :
                \A v \in DOMAIN board.userData :
                    board.userData[v][2] <= board.userData[u][2]]

ClearTopUser(board, userID) ==
    [board EXCEPT !.topUser = IF @ = userID THEN NoUser ELSE @]

\* The loop over the user's boar collection: boars owned, split by isSB.
RECURSIVE CountUniques(_, _, _)
CountUniques(boars, boarConfigs, sb) ==
    IF boars = <<>> THEN 0
    ELSE LET boarData == Head(boars)[2]
             boarInfo == Get(boarConfigs, Head(boars)[1])
             counts == IF sb THEN boarData.num > 0 /\ boarInfo.isSB
                             ELSE boarData.num > 0 /\ ~boarInfo.isSB
         IN  (IF counts THEN 1 ELSE 0) + CountUniques(Tail(boars), boarConfigs, sb)

\* Math.ceil(multiplier * 0.05)
CeilFivePercent(multiplier) == -((-multiplier) \div 20)

Min(a, b) == IF a < b THEN a ELSE b

\* Every stack computed from the base multiplier instead of the running one.
MiracleMultiplierOnBase(multiplier, numActive, miracleIncreaseMax) ==
    IF numActive <= 0 THEN multiplier
    ELSE multiplier + numActive * Min(CeilFivePercent(multiplier), miracleIncreaseMax)

\* The miracle loop: each active stack adds min(ceil(5%), miracleIncreaseMax).
RECURSIVE MiracleMultiplier(_, _, _)
MiracleMultiplier(multiplier, numActive, miracleIncreaseMax) ==
    IF numActive <= 0 THEN multiplier
    ELSE MiracleMultiplier(
            multiplier + Min(CeilFivePercent(multiplier), miracleIncreaseMax),
            numActive - 1, miracleIncreaseMax)

\* The board assignments of updateLeaderboardData, in the order of the code.
UpdateStatements(boarUser, cfg) ==
    << <<"bucks", boarUser.stats.general.boarScore>>,
       <<"total", boarUser.stats.general.totalBoars>>,
       <<"uniques", CountUniques(boarUser.itemCollection.boars, cfg.boars, FALSE)>>,
       <<"uniquesSB", CountUniques(boarUser.itemCollection.boars, cfg.boars, TRUE)>>,
       <<"streak", boarUser.stats.general.boarStreak>>,
       <<"attempts", boarUser.stats.powerups.attempts>>,
       <<"topAttempts", boarUser.stats.powerups.oneAttempts>>,
       <<"giftsUsed", boarUser.itemCollection.powerups.gift.numUsed>>,
       <<"multiplier", MiracleMultiplier(boarUser.stats.general.multiplier,
                           boarUser.itemCollection.powerups.miracle.numActive,
                           cfg.miracleIncreaseMax)>>,
       <<"fastest", boarUser.stats.powerups.fastestTime>> >>

\* Runs the statements in order on the in-memory boardsData.  Reading
\* .userData of a board the dataset does not hold throws a TypeError, which
\* ends the try block.
RECURSIVE RunUpdate(_, _, _)
RunUpdate(boardsData, userID, stmts) ==
    IF stmts = <<>> THEN [data |-> boardsData, threw |-> FALSE]
    ELSE LET boardID == Head(stmts)[1] IN
         IF ~Has(boardsData, boardID) THEN [data |-> boardsData, threw |-> TRUE]
         ELSE RunUpdate(
                Put(boardsData, boardID,
                    SetEntry(Get(boardsData, boardID), userID, Head(stmts)[2])),
                userID, Tail(stmts))

\* The boards removeLeaderboardUser deletes the user from, and the boards
\* whose topUser it clears.
RemoveEntryBoards ==
    <<"bucks", "total", "uniques", "streak", "attempts", "topAttempts",
      "giftsUsed", "multiplier">>
RemoveTopBoards ==
    <<"bucks", "total", "uniques", "streak", "attempts", "topAttempts",
      "giftsUsed", "multiplier">>

RECURSIVE RunRemove(_, _, _, _)
RunRemove(boardsData, userID, entryBoards, topBoards) ==
    IF entryBoards # <<>> THEN
        IF ~Has(boardsData, Head(entryBoards))
        THEN [data |-> boardsData, threw |-> TRUE]
        ELSE RunRemove(
                Put(boardsData, Head(entryBoards),
                    DeleteEntry(Get(boardsData, Head(entryBoards)), userID)),
                userID, Tail(entryBoards), topBoards)
    ELSE IF topBoards # <<>> THEN
        IF ~Has(boardsData, Head(topBoards))
        THEN [data |-> boardsData, threw |-> TRUE]
        ELSE RunRemove(
                Put(boardsData, Head(topBoards),
                    ClearTopUser(Get(boardsData, Head(topBoards)), userID)),
                userID, entryBoards, Tail(topBoards))
    ELSE [data |-> boardsData, threw |-> FALSE]

\* The save moved to a finally block: the boards are saved as far as they got.
UpdateLeaderboardDataSavesAlways(fs, cfg, boarUser) ==
    LET loaded == LoadGlobalData(fs, cfg, "Leaderboards")
        run == RunUpdate(loaded.data, boarUser.user.id, UpdateStatements(boarUser, cfg))
    IN  [files |-> SaveGlobalData(loaded.files, run.data, "Leaderboards"),
         threw |-> run.threw]

\* The call yields between load and save: it works on the boards as they
\* were when the batch of calls was issued, and saves over what ran since.
UpdateLeaderboardDataYields(fs, cfg, boarUser) ==
    LET loaded == LoadGlobalData(IF last.op = "batch" THEN last.pre ELSE fs,
                                 cfg, "Leaderboards")
        run == RunUpdate(loaded.data, boarUser.user.id, UpdateStatements(boarUser, cfg))
    IN  [files |-> IF run.threw THEN fs
                   ELSE SaveGlobalData(fs, run.data, "Leaderboards"),
         threw |-> run.threw]

\* updateLeaderboardData: load the boards, recompute every metric of the
\* user, save.  An exception in between is caught and logged, nothing is saved.
UpdateLeaderboardDataOn(fs, cfg, boarUser) ==
    LET loaded == LoadGlobalData(fs, cfg, "Leaderboards")
        run == RunUpdate(loaded.data, boarUser.user.id, UpdateStatements(boarUser, cfg))
    IN  [files |-> IF run.threw THEN loaded.files
                   ELSE SaveGlobalData(loaded.files, run.data, "Leaderboards"),
         threw |-> run.threw]

\* removeLeaderboardUser: load the boards, delete the user, clear topUser, save.
RemoveLeaderboardUserOn(fs, cfg, userID) ==
    LET loaded == LoadGlobalData(fs, cfg, "Leaderboards")
        run == RunRemove(loaded.data, userID, RemoveEntryBoards, RemoveTopBoards)
    IN  [files |-> IF run.threw THEN loaded.files
                   ELSE SaveGlobalData(loaded.files, run.data, "Leaderboards"),
         threw |-> run.threw]

\* The top-holder tracker (outside DataHandlers): the highest scorer of a board.
TopScorer(board) ==
    IF DOMAIN board.userData = {} THEN NoUser
    ELSE CHOOSE u \in DOMAIN board.userData :
            \A v \in DOMAIN board.userData :
                \/ board.userData[v][2] < board.userData[u][2]
                \/ board.userData[v][2] = board.userData[u][2] /\ u <= v

(***************************************************************************)
(* The inputs of the leaderboard specification.                            *)
(***************************************************************************)
BoarConfigs == << <<"boar", [isSB |-> FALSE]>>, <<"sbBoar", [isSB |-> TRUE]>> >>

\* A user profile: the fields updateLeaderboardData reads.
BoarUser(userID, a, b) ==
    [user |-> [id |-> userID, username |-> Username(userID)],
     stats |-> [general |-> [boarScore |-> a, totalBoars |-> b,
                             boarStreak |-> a, multiplier |-> b],
                powerups |-> [attempts |-> a, oneAttempts |-> b, fastestTime |-> a]],
     itemCollection |->
        [boars |-> << <<"boar", [num |-> a]>>, <<"sbBoar", [num |-> b]>> >>,
         powerups |-> [gift |-> [numUsed |-> b],
                       miracle |-> [numActive |-> IF a > 0 THEN a ELSE 0]]]]

Without(s, x) == SelectSeq(s, LAMBDA e : e # x)

\* The leaderboard choices of the top command: every board the code writes,
\* or a configuration that lacks one of them.
ChoiceConfigs == {BoardIDs, Without(BoardIDs, "streak"), Without(BoardIDs, "fastest")}

BaseConfig ==
    [choices |-> BoardIDs, boars |-> BoarConfigs, miracleIncreaseMax |-> 1,
     powerups |-> <<>>, questIDs |-> <<>>, oneDay |-> 1,
     rarityConfigs |-> <<>>, boarItemConfigs |-> <<>>]

NoGuild == [defined |-> FALSE, isSBServer |-> FALSE]

NoDraw == [pc |-> "idle", guildData |-> NoGuild, extra |-> FALSE, extraVal |-> 0,
           numBoars |-> 0, i |-> 0, weightTotal |-> 0, probabilities |-> <<>>,
           randomRarity |-> 0, boarIDs |-> <<>>, rolled |-> <<>>]

NoCall == [op |-> "none", file |-> "", userID |-> NoUser, boarUser |-> <<>>,
           threw |-> FALSE, pre |-> <<>>]

NoFiles == [f \in GlobalFile |-> Missing]

InitBoard ==
    /\ \E c \in ChoiceConfigs : config = [BaseConfig EXCEPT !.choices = c]
    /\ files = NoFiles
    /\ users = <<>>
    /\ now = 0
    /\ last = NoCall
    /\ call = NoDraw

UpdateLeaderboardData(userID, a, b) ==
    LET res == UpdateLeaderboardDataOn(files, config, BoarUser(userID, a, b)) IN
    /\ files' = res.files
    /\ last' = [NoCall EXCEPT !.op = "update", !.file = "Leaderboards",
                   !.userID = userID, !.boarUser = BoarUser(userID, a, b),
                   !.threw = res.threw]
    /\ UNCHANGED <<config, users, now, call>>

RemoveLeaderboardUser(userID) ==
    LET res == RemoveLeaderboardUserOn(files, config, userID) IN
    /\ files' = res.files
    /\ last' = [NoCall EXCEPT !.op = "remove", !.file = "Leaderboards",
                   !.userID = userID, !.threw = res.threw]
    /\ UNCHANGED <<config, users, now, call>>

\* The tracker records the current highest scorer of every board.
TrackTopUsers ==
    /\ files["Leaderboards"].status = "ok"
    /\ LET boardsData == files["Leaderboards"].data IN
       files' = SaveGlobalData(files,
                    [i \in DOMAIN boardsData |->
                        <<boardsData[i][1],
                          [boardsData[i][2] EXCEPT !.topUser = TopScorer(boardsData[i][2])]>>],
                    "Leaderboards")
    /\ last' = [NoCall EXCEPT !.op = "track", !.file = "Leaderboards"]
    /\ UNCHANGED <<config, users, now, call>>

NextBoard ==
    \/ \E userID \in Users, a \in Stats : \E b \in {0, a} :
            UpdateLeaderboardData(userID, a, b)
    \/ \E userID \in Users : RemoveLeaderboardUser(userID)
    \/ TrackTopUsers

SpecBoard == InitBoard /\ [][NextBoard]_vars

Boards == IF files["Leaderboards"].status = "ok" THEN files["Leaderboards"].data ELSE <<>>

BoardOf(boardID) == Get(Boards, boardID)
HasEntry(boardID, userID) ==
    Has(Boards, boardID) /\ userID \in DOMAIN BoardOf(boardID).userData

(***************************************************************************)
(* C1: after any sequence of updateLeaderboardData and                     *)
(* removeLeaderboardUser calls on a freshly created leaderboard dataset,   *)
(* no board of the persisted document holds an entry whose score is <= 0.  *)
(***************************************************************************)
C1_NoNonPositiveScore ==
    \A i \in DOMAIN Boards :
        \A userID \in DOMAIN Boards[i][2].userData :
            Boards[i][2].userData[userID][2] > 0

\* An update with a positive boarScore and a non-positive totalBoars has
\* stored the first and holds no entry for the second.
C1_Witness ==
    /\ last.op = "update" /\ ~last.threw
    /\ last.boarUser.stats.general.boarScore > 0
    /\ last.boarUser.stats.general.totalBoars <= 0
    /\ HasEntry("bucks", last.userID)
    /\ BoardOf("bucks").userData[last.userID][2] = last.boarUser.stats.general.boarScore
    /\ ~HasEntry("total", last.userID)

(***************************************************************************)
(* C2: removeLeaderboardUser(userID) deletes the user's entry from every   *)
(* board updateLeaderboardData writes and clears topUser on every such     *)
(* board whose topUser is the user: after a remove that completed, the     *)
(* user has no entry in any board and is no board's topUser.               *)
(***************************************************************************)
C2_RemoveDeletesEveryMetric ==
    (last.op = "remove" /\ ~last.threw) =>
        \A i \in DOMAIN Boards :
            /\ last.userID \notin DOMAIN Boards[i][2].userData
            /\ Boards[i][2].topUser # last.userID

(***************************************************************************)
(* BoarUtils: the weighted draw.                                           *)
(*                                                                         *)
(* Math.random() is sample / RandDenom for a sample in 0..RandDenom-1.     *)
(* Probabilities are exact fractions over weightTotal: a probability is    *)
(* the running sum of weights, compared after cross-multiplication.  With  *)
(* weightTotal = 0 every probability is NaN and every comparison with it   *)
(* is false.  Rarity indexes count from 0 as in the code.                  *)
(***************************************************************************)
RandDenom == 10
Samples == 0..(RandDenom - 1)

\* InsertByWeight with the comparison reversed: the sort is by descending weight.
RECURSIVE InsertByWeightDescending(_, _)
InsertByWeightDescending(s, e) ==
    IF s = <<>> THEN <<e>>
    ELSE IF e[2] > Head(s)[2] THEN <<e>> \o s
    ELSE <<Head(s)>> \o InsertByWeightDescending(Tail(s), e)

\* Array.prototype.sort by ascending weight (stable): insert e into sorted s.
RECURSIVE InsertByWeight(_, _)
InsertByWeight(s, e) ==
    IF s = <<>> THEN <<e>>
    ELSE IF e[2] < Head(s)[2] THEN <<e>> \o s
    ELSE <<Head(s)>> \o InsertByWeight(Tail(s), e)

RECURSIVE SortByWeight(_)
SortByWeight(entries) ==
    IF entries = <<>> THEN <<>>
    ELSE InsertByWeight(SortByWeight(SubSeq(entries, 1, Len(entries) - 1)),
                        entries[Len(entries)])

RECURSIVE SumWeights(_)
SumWeights(entries) ==
    IF entries = <<>> THEN 0 ELSE Head(entries)[2] + SumWeights(Tail(entries))

\* The running sums: <<rarityIndex, numerator of the probability>>.
RECURSIVE Cumulate(_, _)
Cumulate(entries, prevProb) ==
    IF entries = <<>> THEN <<>>
    ELSE <<<<Head(entries)[1], Head(entries)[2] + prevProb>>>>
            \o Cumulate(Tail(entries), Head(entries)[2] + prevProb)

Probabilities(rarityWeights) == Cumulate(SortByWeight(rarityWeights), 0)

MaxProbability(probabilities) ==
    CHOOSE p \in {probabilities[k][2] : k \in DOMAIN probabilities} :
        \A k \in DOMAIN probabilities : probabilities[k][2] <= p

\* getBaseRarityWeights: rarity index -> weight, 0 when not fromDaily.
GetBaseRarityWeights(cfg) ==
    [k \in DOMAIN cfg.rarityConfigs |->
        <<k - 1, IF cfg.rarityConfigs[k].fromDaily THEN cfg.rarityConfigs[k].weight ELSE 0>>]

\* NumBoars without the guaranteed extra boars of extraVal >= 100.
NumBoarsNoGuaranteed(extra, extraVal, bonus) ==
    IF ~extra THEN 1
    ELSE IF bonus * 100 < (extraVal % 100) * RandDenom THEN 2 ELSE 1

\* The number of boars to draw; bonus is the Math.random() of the extra chance.
NumBoars(extra, extraVal, bonus) ==
    IF ~extra THEN 1
    ELSE LET guaranteed == 1 + (extraVal \div 100)
             rest == extraVal - (guaranteed - 1) * 100
         IN  IF bonus * 100 < rest * RandDenom THEN guaranteed + 1 ELSE guaranteed

NoRarity == -1

\* The comparison made non-strict: a sample on a boundary goes to the next tier.
RECURSIVE RollRarityAtLeast(_, _, _, _)
RollRarityAtLeast(entries, probabilities, weightTotal, randomRarity) ==
    IF entries = <<>> THEN NoRarity
    ELSE LET probability == Head(entries)[2]
             higher == weightTotal # 0
                         /\ randomRarity * weightTotal >= probability * RandDenom
             notMax == weightTotal = 0 \/ MaxProbability(probabilities) # probability
         IN  IF higher /\ notMax
             THEN RollRarityAtLeast(Tail(entries), probabilities, weightTotal, randomRarity)
             ELSE Head(entries)[1]

\* The inner loop of a draw: the first entry not skipped.  An entry is
\* skipped when randomRarity > probability and it is not the maximum.
RECURSIVE RollRarity(_, _, _, _)
RollRarity(entries, probabilities, weightTotal, randomRarity) ==
    IF entries = <<>> THEN NoRarity
    ELSE LET probability == Head(entries)[2]
             higher == weightTotal # 0
                         /\ randomRarity * weightTotal > probability * RandDenom
             notMax == weightTotal = 0 \/ MaxProbability(probabilities) # probability
         IN  IF higher /\ notMax
             THEN RollRarity(Tail(entries), probabilities, weightTotal, randomRarity)
             ELSE Head(entries)[1]

Rarity(cfg, rarityIndex) == cfg.rarityConfigs[rarityIndex + 1]

\* Excluded without the guild's isSBServer check: an isSB boar is never left out.
ExcludedIgnoresSB(cfg, guildData, boarID) ==
    Get(cfg.boarItemConfigs, boarID).blacklisted

\* The filter of findValid: is the boar left out for this guild?
Excluded(cfg, guildData, boarID) ==
    LET isBlacklisted == Get(cfg.boarItemConfigs, boarID).blacklisted
        isSB == Get(cfg.boarItemConfigs, boarID).isSB
    IN  isBlacklisted \/ (~(guildData.defined /\ guildData.isSBServer) /\ isSB)

ValidRarityBoars(cfg, guildData, rarityIndex) ==
    SelectSeq(Rarity(cfg, rarityIndex).boars, LAMBDA boarID : ~Excluded(cfg, guildData, boarID))

\* findValid; randomBoar is its Math.random().
FindValid(rarityIndex, guildData, cfg, randomBoar) ==
    LET validRarityBoars == ValidRarityBoars(cfg, guildData, rarityIndex) IN
    IF Len(validRarityBoars) = 0 THEN ""
    ELSE validRarityBoars[((randomBoar * Len(validRarityBoars)) \div RandDenom) + 1]

(***************************************************************************)
(* The inputs of the draw specification.                                   *)
(***************************************************************************)
DrawTierCounts == {1, 2}
DrawBoarIDs == <<"b1", "b2">>
WeightVals == {30, 70}
ExtraVals == {0, 50, 250}
GuildDatas == {NoGuild} \cup {[defined |-> TRUE, isSBServer |-> sb] : sb \in BOOLEAN}

\* The boars of tier k of n: the boar IDs dealt round the tiers.
TierBoars(n, k) ==
    LET mine == {j \in DOMAIN DrawBoarIDs : (j - 1) % n = k - 1}
        Pick[j \in 0..Len(DrawBoarIDs)] ==
            IF j = 0 THEN <<>>
            ELSE IF j \in mine THEN Append(Pick[j - 1], DrawBoarIDs[j]) ELSE Pick[j - 1]
    IN  Pick[Len(DrawBoarIDs)]

\* The rarity configurations of n tiers, in any order of weights.
RarityConfigs(n) ==
    {[k \in 1..n |-> [weight |-> t[k].weight, fromDaily |-> t[k].fromDaily,
                      boars |-> TierBoars(n, k)]] :
        t \in [1..n -> [weight : WeightVals, fromDaily : BOOLEAN]]}

BoarItemConfigs ==
    {[j \in DOMAIN DrawBoarIDs |-> <<DrawBoarIDs[j], f[j]>>] :
        f \in [DOMAIN DrawBoarIDs -> [blacklisted : BOOLEAN, isSB : BOOLEAN]]}

InitDraw ==
    /\ \E n \in DrawTierCounts : \E r \in RarityConfigs(n), b \in BoarItemConfigs :
            config = [BaseConfig EXCEPT !.rarityConfigs = r, !.boarItemConfigs = b]
    /\ files = NoFiles
    /\ users = <<>>
    /\ now = 0
    /\ last = NoCall
    /\ call = NoDraw

\* getRandBoars up to the draw loop, called with the base rarity weights.
GetRandBoarsStart(guildData, extra, extraVal, bonus) ==
    /\ call.pc = "idle"
    /\ LET rarityWeights == GetBaseRarityWeights(config) IN
       call' = [NoDraw EXCEPT !.pc = "drawing", !.guildData = guildData,
                   !.extra = extra, !.extraVal = extraVal,
                   !.numBoars = NumBoars(extra, extraVal, bonus),
                   !.weightTotal = SumWeights(rarityWeights),
                   !.probabilities = Probabilities(rarityWeights)]
    /\ UNCHANGED <<config, files, users, now, last>>

\* One iteration of the draw loop.
DrawBoar(randomRarity, randomBoar) ==
    /\ call.pc = "drawing"
    /\ call.i < call.numBoars
    /\ LET rarityIndex == RollRarity(call.probabilities, call.probabilities,
                                     call.weightTotal, randomRarity)
       IN  call' = IF rarityIndex = NoRarity
                   THEN [call EXCEPT !.i = @ + 1]
                   ELSE [call EXCEPT !.i = @ + 1,
                            !.boarIDs = Append(@, FindValid(rarityIndex, call.guildData,
                                                            config, randomBoar)),
                            !.rolled = Append(@, rarityIndex)]
    /\ UNCHANGED <<config, files, users, now, last>>

GetRandBoarsReturn ==
    /\ call.pc = "drawing"
    /\ call.i >= call.numBoars
    /\ call' = [call EXCEPT !.pc = "done"]
    /\ UNCHANGED <<config, files, users, now, last>>

NextDraw ==
    \/ \E guildData \in GuildDatas, extra \in BOOLEAN, extraVal \in ExtraVals,
          bonus \in Samples : GetRandBoarsStart(guildData, extra, extraVal, bonus)
    \/ \E randomRarity \in Samples, randomBoar \in Samples : DrawBoar(randomRarity, randomBoar)
    \/ GetRandBoarsReturn

SpecDraw == InitDraw /\ [][NextDraw]_vars

(***************************************************************************)
(* C3: getRandBoars returns exactly one result when extra is false; when   *)
(* extra is true the number of results n satisfies                         *)
(* 1 + floor(extraVal/100) <= n <= 2 + floor(extraVal/100) whatever the    *)
(* random source returns; and every draw made so far has contributed       *)
(* exactly one element.                                                    *)
(***************************************************************************)
C3_ResultCount ==
    /\ Len(call.boarIDs) = call.i
    /\ call.pc = "done" =>
        /\ ~call.extra => Len(call.boarIDs) = 1
        /\ call.extra =>
            /\ 1 + (call.extraVal \div 100) <= Len(call.boarIDs)
            /\ Len(call.boarIDs) <= 2 + (call.extraVal \div 100)

\* A call with extraVal = 250 that returned exactly the 3 guaranteed boars.
C3_Witness ==
    /\ call.pc = "done" /\ call.extra /\ call.extraVal = 250
    /\ Len(call.boarIDs) = 3

(***************************************************************************)
(* C4: every element of getRandBoars' result is the empty string or a boar *)
(* of the rarity rolled for it that is not blacklisted and is not isSB     *)
(* unless the guild's isSBServer is true; it is the empty string exactly   *)
(* when every boar of that rarity is left out.                             *)
(***************************************************************************)
Blacklisted(boarID) == Get(config.boarItemConfigs, boarID).blacklisted
IsSB(boarID) == Get(config.boarItemConfigs, boarID).isSB
Allowed(boarID) ==
    ~Blacklisted(boarID) /\ (IsSB(boarID) => (call.guildData.defined /\ call.guildData.isSBServer))

C4_ValidResults ==
    \A k \in DOMAIN call.boarIDs :
        LET boars == Rarity(config, call.rolled[k]).boars
            boarGotten == call.boarIDs[k]
        IN  /\ boarGotten # "" => (Includes(boars, boarGotten) /\ Allowed(boarGotten))
            /\ boarGotten = "" <=> (\A j \in DOMAIN boars : ~Allowed(boars[j]))

\* A result holding the sentinel for a rarity whose only boar is left out,
\* and an isSB boar drawn in an isSBServer guild.
C4_Witness ==
    /\ call.pc = "done"
    /\ \E k \in DOMAIN call.boarIDs :
            call.boarIDs[k] = "" /\ Rarity(config, call.rolled[k]).boars # <<>>
    /\ \E k \in DOMAIN call.boarIDs : call.boarIDs[k] # "" /\ IsSB(call.boarIDs[k])

(***************************************************************************)
(* A single draw: getRandBoars with extra = false, for a guild without     *)
(* restrictions and boars none of which is blacklisted or isSB, over       *)
(* rarity configurations of up to MaxTiers tiers.                          *)
(***************************************************************************)
MaxTiers == 3

PlainBoarItemConfigs ==
    [j \in DOMAIN DrawBoarIDs |-> <<DrawBoarIDs[j], [blacklisted |-> FALSE, isSB |-> FALSE]>>]

InitRoll ==
    /\ \E n \in 1..MaxTiers : \E r \in RarityConfigs(n) :
            config = [BaseConfig EXCEPT !.rarityConfigs = r,
                                        !.boarItemConfigs = PlainBoarItemConfigs]
    /\ files = NoFiles
    /\ users = <<>>
    /\ now = 0
    /\ last = NoCall
    /\ call = NoDraw

\* The whole of getRandBoars(guildData, inter, base weights, false, 0, config).
GetRandBoarsSingle(randomRarity, randomBoar) ==
    /\ call.pc = "idle"
    /\ LET rarityWeights == GetBaseRarityWeights(config)
           probabilities == Probabilities(rarityWeights)
           weightTotal == SumWeights(rarityWeights)
           rarityIndex == RollRarity(probabilities, probabilities, weightTotal, randomRarity)
       IN  call' = [NoDraw EXCEPT !.pc = "done",
                       !.numBoars = NumBoars(FALSE, 0, 0), !.i = 1,
                       !.weightTotal = weightTotal, !.probabilities = probabilities,
                       !.randomRarity = randomRarity,
                       !.boarIDs = IF rarityIndex = NoRarity THEN <<>>
                                   ELSE <<FindValid(rarityIndex, NoGuild, config, randomBoar)>>,
                       !.rolled = IF rarityIndex = NoRarity THEN <<>> ELSE <<rarityIndex>>]
    /\ UNCHANGED <<config, files, users, now, last>>

NextRoll == \E randomRarity \in Samples, randomBoar \in Samples :
                GetRandBoarsSingle(randomRarity, randomBoar)

SpecRoll == InitRoll /\ [][NextRoll]_vars

\* The configuration of the scenario: two tiers, weights 70 (common) and 30
\* (rare) in either order, both fromDaily.
CommonRareConfig ==
    /\ Len(config.rarityConfigs) = 2
    /\ {config.rarityConfigs[k].weight : k \in 1..2} = {30, 70}
    /\ \A k \in 1..2 : config.rarityConfigs[k].fromDaily

RolledWeight == Rarity(config, call.rolled[1]).weight

(***************************************************************************)
(* C5 as stated: with tiers common (70) and rare (30), both fromDaily, and *)
(* a tier sample of 0.9, getRandBoars selects from the rare tier.          *)
(***************************************************************************)
C5_SelectsRare ==
    (CommonRareConfig /\ call.pc = "done" /\ call.randomRarity * 10 = 9 * RandDenom) =>
        RolledWeight = 30

(***************************************************************************)
(* C5 as amended: with tiers common (70) and rare (30), both fromDaily,    *)
(* the cumulative boundaries are rare = 0.3 and common = 1.0, so a tier    *)
(* sample above 0.3 (such as 0.9) selects from the common tier and a       *)
(* sample of at most 0.3 selects from the rare tier.                       *)
(***************************************************************************)
C5_SelectsCommon ==
    (CommonRareConfig /\ call.pc = "done") =>
        /\ call.weightTotal = 100
        /\ Len(call.probabilities) = 2
        /\ Rarity(config, call.probabilities[1][1]).weight = 30
        /\ call.probabilities[1][2] = 30
        /\ Rarity(config, call.probabilities[2][1]).weight = 70
        /\ call.probabilities[2][2] = 100
        /\ call.randomRarity * 10 > 3 * RandDenom => RolledWeight = 70
        /\ call.randomRarity * 10 <= 3 * RandDenom => RolledWeight = 30

\* The scenario itself: sample 0.9, a boar of the common tier drawn.
C5_Witness ==
    /\ CommonRareConfig /\ call.pc = "done"
    /\ call.randomRarity * 10 = 9 * RandDenom
    /\ RolledWeight = 70
    /\ Includes(Rarity(config, call.rolled[1]).boars, call.boarIDs[1])

(***************************************************************************)
(* getGlobalData with updating = true: the reconciliation of a document    *)
(* with the configuration.                                                 *)
(***************************************************************************)
\* new BoarUser({id}): the user's stored profile.
LoadBoarUser(us, userID) == us[userID]

\* BoarUser.updateUserData: write the profile back.
UpdateUserData(us, userID, boarUser) == [us EXCEPT ![userID] = boarUser]

AddTo(boarUser, powerupID, units, score) ==
    [boarUser EXCEPT
        !.itemCollection.powerups[powerupID].numTotal = @ + units,
        !.stats.general.boarScore = @ + score]

\* The compensation of one buy order of a retired powerup.
PayBuyOrder(us, powerupID, buyOrder) ==
    UpdateUserData(us, buyOrder.userID,
        AddTo(LoadBoarUser(us, buyOrder.userID), powerupID,
              buyOrder.filledAmount - buyOrder.claimedAmount,
              (buyOrder.num - buyOrder.filledAmount) * buyOrder.price))

\* A sell order compensated with the amounts of a buy order.
PaySellOrderAsBuyOrder(us, powerupID, sellOrder) ==
    UpdateUserData(us, sellOrder.userID,
        AddTo(LoadBoarUser(us, sellOrder.userID), powerupID,
              sellOrder.filledAmount - sellOrder.claimedAmount,
              (sellOrder.num - sellOrder.filledAmount) * sellOrder.price))

\* The compensation of one sell order of a retired powerup.
PaySellOrder(us, powerupID, sellOrder) ==
    UpdateUserData(us, sellOrder.userID,
        AddTo(LoadBoarUser(us, sellOrder.userID), powerupID,
              sellOrder.num - sellOrder.filledAmount,
              (sellOrder.filledAmount - sellOrder.claimedAmount) * sellOrder.price))

RECURSIVE PayBuyers(_, _, _)
PayBuyers(us, powerupID, buyers) ==
    IF buyers = <<>> THEN us
    ELSE PayBuyers(PayBuyOrder(us, powerupID, Head(buyers)), powerupID, Tail(buyers))

RECURSIVE PaySellers(_, _, _)
PaySellers(us, powerupID, sellers) ==
    IF sellers = <<>> THEN us
    ELSE PaySellers(PaySellOrder(us, powerupID, Head(sellers)), powerupID, Tail(sellers))

\* The test for a missing key inverted: present keys are reset, missing ones
\* stay missing.
RECURSIVE AddMissingInverted(_, _, _)
AddMissingInverted(o, keys, default) ==
    IF keys = <<>> THEN o
    ELSE AddMissingInverted(IF Has(o, Head(keys)) THEN Put(o, Head(keys), default) ELSE o,
                            Tail(keys), default)

\* Add a default value for every configured key the object lacks.
RECURSIVE AddMissing(_, _, _)
AddMissing(o, keys, default) ==
    IF keys = <<>> THEN o
    ELSE AddMissing(IF Has(o, Head(keys)) THEN o ELSE Put(o, Head(keys), default),
                    Tail(keys), default)

\* The loop over Object.keys(data.powerups): a powerup the configuration
\* lacks pays its buyers, then its sellers, and is deleted.
RECURSIVE RetirePowerups(_, _, _, _)
RetirePowerups(powerups, us, keys, cfg) ==
    IF keys = <<>> THEN [powerups |-> powerups, users |-> us]
    ELSE LET powerupID == Head(keys) IN
         IF Includes(cfg.powerups, powerupID)
         THEN RetirePowerups(powerups, us, Tail(keys), cfg)
         ELSE LET powItemData == Get(powerups, powerupID)
                  paid == PaySellers(PayBuyers(us, powerupID, powItemData.buyers),
                                     powerupID, powItemData.sellers)
              IN  RetirePowerups(Del(powerups, powerupID), paid, Tail(keys), cfg)

ReconcileItems(data, us, cfg) ==
    LET added == AddMissing(data.powerups, cfg.powerups, NewItemData)
        retired == RetirePowerups(added, us, KeySeq(added), cfg)
    IN  [data |-> [data EXCEPT !.powerups = retired.powerups], users |-> retired.users]

\* The loop over Object.keys(data): a board that is no choice is deleted.
RECURSIVE DropBoards(_, _, _)
DropBoards(data, keys, cfg) ==
    IF keys = <<>> THEN data
    ELSE DropBoards(IF Includes(cfg.choices, Head(keys)) THEN data ELSE Del(data, Head(keys)),
                    Tail(keys), cfg)

ReconcileBoards(data, cfg) ==
    LET added == AddMissing(data, cfg.choices, NewBoardData)
    IN  DropBoards(added, KeySeq(added), cfg)

(***************************************************************************)
(* The quest rotation.  A day is TicksPerDay ticks, and day 0 of the clock *)
(* is the weekday EpochUTCDay (0 = Sunday).                                *)
(***************************************************************************)
TicksPerDay == 2
EpochUTCDay == 4

\* new Date().setUTCHours(0,0,0,0)
UTCMidnight(t) == (t \div TicksPerDay) * TicksPerDay
\* new Date().getUTCDay()
UTCDay(t) == (EpochUTCDay + (t \div TicksPerDay)) % 7

\* The week start taken seven days back instead of back to Sunday.
WeekStartSevenDaysBack(cfg, t) == UTCMidnight(t) - 7 * cfg.oneDay

WeekStart(cfg, t) == UTCMidnight(t) - UTCDay(t) * cfg.oneDay

\* The comparison reversed: a week that has not ended counts as expired.
QuestExpiredReversed(data, cfg, t) == data.questsStartTimestamp + cfg.oneDay * 7 > t

QuestExpired(data, cfg, t) == data.questsStartTimestamp + cfg.oneDay * 7 < t

\* The element read and left in the array (questIDs[index]).
SpliceKeeps(questIDs, index) ==
    IF index + 1 \in DOMAIN questIDs
    THEN [removed |-> questIDs[index + 1], rest |-> questIDs]
    ELSE [removed |-> Undefined, rest |-> questIDs]

\* questIDs.splice(index, 1)[0], index counting from 0: the element removed
\* (undefined when there is none) and the array left.
Splice(questIDs, index) ==
    IF index + 1 \in DOMAIN questIDs
    THEN [removed |-> questIDs[index + 1],
          rest |-> [k \in 1..(Len(questIDs) - 1) |->
                        IF k <= index THEN questIDs[k] ELSE questIDs[k + 1]]]
    ELSE [removed |-> Undefined, rest |-> questIDs]

\* The loop of updateQuestData over curQuestIDs; randoms[i] is the
\* Math.random() of iteration i.
RECURSIVE DrawQuests(_, _, _, _)
DrawQuests(curQuestIDs, questIDs, randoms, i) ==
    IF i > Len(curQuestIDs) THEN curQuestIDs
    ELSE LET spliced == Splice(questIDs, (randoms[i] * Len(questIDs)) \div RandDenom)
         IN  DrawQuests([curQuestIDs EXCEPT ![i] = spliced.removed],
                        spliced.rest, randoms, i + 1)

\* updateQuestData: load the quest data, restart the week, redraw, save.
UpdateQuestDataOn(fs, cfg, t, randoms) ==
    LET loaded == LoadGlobalData(fs, cfg, "Quest")
        data == [questsStartTimestamp |-> WeekStart(cfg, t),
                 curQuestIDs |-> DrawQuests(loaded.data.curQuestIDs, cfg.questIDs, randoms, 1)]
    IN  [data |-> data, files |-> SaveGlobalData(loaded.files, data, "Quest")]

\* getGlobalData(file, updating).
GetGlobalDataOn(fs, us, cfg, t, file, updating, randoms) ==
    LET loaded == LoadGlobalData(fs, cfg, file)
        kept == [data |-> loaded.data, files |-> loaded.files, users |-> us,
                 created |-> loaded.created, regenerated |-> FALSE]
    IN  IF ~updating THEN kept
        ELSE CASE file = "Items" ->
                    LET r == ReconcileItems(loaded.data, us, cfg) IN
                    [kept EXCEPT !.data = r.data, !.users = r.users,
                                 !.files = SaveGlobalData(loaded.files, r.data, file)]
               [] file = "Leaderboards" ->
                    LET d == ReconcileBoards(loaded.data, cfg) IN
                    [kept EXCEPT !.data = d,
                                 !.files = SaveGlobalData(loaded.files, d, file)]
               [] file = "Quest" /\ QuestExpired(loaded.data, cfg, t) ->
                    LET q == UpdateQuestDataOn(loaded.files, cfg, t, randoms) IN
                    [kept EXCEPT !.data = q.data, !.regenerated = TRUE,
                                 !.files = SaveGlobalData(q.files, q.data, file)]
               [] OTHER ->
                    [kept EXCEPT !.files = SaveGlobalData(loaded.files, loaded.data, file)]

(***************************************************************************)
(* The inputs of the store specification.  An operation on one global file *)
(* reads and writes no other global file, so a behaviour follows the calls *)
(* made on one file (last.file), whose document starts in any state a      *)
(* former configuration or a crash can have left.                          *)
(***************************************************************************)
MaxNum == 2
MaxPrice == 2

PowerupIDs == {"gift", "clone"}
QuestPool == <<"q1", "q2", "q3">>

\* The sequences without repetition over a set: the key orders of an object.
KeyOrders(S) ==
    UNION {{ks \in [1..n -> S] : \A i, j \in 1..n : ks[i] = ks[j] => i = j}
           : n \in 0..Cardinality(S)}

Orders ==
    {[userID |-> u, num |-> n, filledAmount |-> f, claimedAmount |-> c, price |-> p] :
        u \in Users, n \in 0..MaxNum, f \in 0..MaxNum, c \in 0..MaxNum, p \in 1..MaxPrice}

MarketOrders == {o \in Orders : o.claimedAmount <= o.filledAmount /\ o.filledAmount <= o.num}

OtherUser(o) == [o EXCEPT !.userID = CHOOSE u \in Users : u # o.userID]

\* The order books of a powerup: empty, one order, or two.
ItemDatas ==
    {NewItemData}
    \cup {[buyers |-> <<o>>, sellers |-> <<>>] : o \in MarketOrders}
    \cup {[buyers |-> <<>>, sellers |-> <<o>>] : o \in MarketOrders}
    \cup {[buyers |-> <<o>>, sellers |-> <<o>>] : o \in MarketOrders}
    \cup {[buyers |-> <<o, OtherUser(o)>>, sellers |-> <<>>] : o \in MarketOrders}

ItemsDocuments ==
    {Missing, Corrupt}
    \cup {Document([powerups |-> [i \in DOMAIN ks |-> <<ks[i], book>>]]) :
            ks \in KeyOrders(PowerupIDs), book \in ItemDatas}

StoredBoards ==
    {NewBoardData, [userData |-> PutMap(EmptyMap, 1, <<Username(1), 5>>), topUser |-> 1]}

BoardsDocuments ==
    {Missing, Corrupt}
    \cup {Document([i \in DOMAIN ks |-> <<ks[i], board>>]) :
            ks \in ChoiceConfigs \cup {Append(BoardIDs, "legacy")}, board \in StoredBoards}

\* A week of clock values, three weeks after day 0.
NowVals == (21 * TicksPerDay)..(28 * TicksPerDay - 1)
\* The age of a stored week start, in ticks: in the future, fresh, around
\* seven days, eight days.
StartAges == {-1, 0, 7 * TicksPerDay - 1, 7 * TicksPerDay, 7 * TicksPerDay + 1, 8 * TicksPerDay}
StaleQuestIDs == <<"old1", "old2", "old3">>

QuestDocuments(t) ==
    {Missing, Corrupt}
    \cup {Document([questsStartTimestamp |-> t - age,
                    curQuestIDs |-> SubSeq(StaleQuestIDs, 1, n)]) :
            age \in StartAges, n \in 0..QuestLen}

QuestPools == {SubSeq(QuestPool, 1, n) : n \in 1..Len(QuestPool)}

NewUserData ==
    [itemCollection |-> [powerups |-> [p \in PowerupIDs |-> [numTotal |-> 0]]],
     stats |-> [general |-> [boarScore |-> 0]]]

NoSummary == [op |-> "none", file |-> "", updating |-> FALSE, created |-> FALSE,
              changed |-> FALSE]

NoStoreCall ==
    [op |-> "none", file |-> "", updating |-> FALSE, created |-> FALSE,
     regenerated |-> FALSE, changed |-> FALSE, data |-> <<>>,
     pre |-> Missing, preUsers |-> <<>>, prev |-> NoSummary]

Summary(c) == [op |-> c.op, file |-> c.file, updating |-> c.updating,
               created |-> c.created, changed |-> c.changed]

StoreConfig == [BaseConfig EXCEPT !.oneDay = TicksPerDay, !.questIDs = SubSeq(QuestPool, 1, 3),
                                  !.powerups = <<"gift", "clone">>]

PlainDocuments(file) == {Missing, Corrupt, Document(DefaultData(StoreConfig, file))}

InitStore ==
    /\ \/ \E ps \in KeyOrders(PowerupIDs), d \in ItemsDocuments :
            /\ config = [StoreConfig EXCEPT !.powerups = ps]
            /\ files = [NoFiles EXCEPT !["Items"] = d]
            /\ now = 21 * TicksPerDay
            /\ last = [NoStoreCall EXCEPT !.file = "Items"]
       \/ \E cs \in ChoiceConfigs, d \in BoardsDocuments :
            /\ config = [StoreConfig EXCEPT !.choices = cs]
            /\ files = [NoFiles EXCEPT !["Leaderboards"] = d]
            /\ now = 21 * TicksPerDay
            /\ last = [NoStoreCall EXCEPT !.file = "Leaderboards"]
       \/ \E qs \in QuestPools, t \in NowVals : \E d \in QuestDocuments(t) :
            /\ config = [StoreConfig EXCEPT !.questIDs = qs]
            /\ files = [NoFiles EXCEPT !["Quest"] = d]
            /\ now = t
            /\ last = [NoStoreCall EXCEPT !.file = "Quest"]
       \/ \E file \in {"BannedUsers", "Powerups"} : \E d \in PlainDocuments(file) :
            /\ config = StoreConfig
            /\ files = [NoFiles EXCEPT ![file] = d]
            /\ now = 21 * TicksPerDay
            /\ last = [NoStoreCall EXCEPT !.file = file]
    /\ users = [u \in Users |-> NewUserData]
    /\ call = NoDraw

\* The random numbers a call consumes: one per quest ID when it redraws.
\* QuestSamples are samples that between them reach every index of the pool.
QuestSamples == {s \in Samples : s % 4 = 0}

QuestRandoms(fs, cfg) ==
    [1..Len(LoadGlobalData(fs, cfg, "Quest").data.curQuestIDs) -> QuestSamples]

RandomsOf(file, updating) ==
    IF file = "Quest" /\ updating
          /\ QuestExpired(LoadGlobalData(files, config, "Quest").data, config, now)
    THEN QuestRandoms(files, config)
    ELSE {<<>>}

GetGlobalData(file, updating, randoms) ==
    LET res == GetGlobalDataOn(files, users, config, now, file, updating, randoms) IN
    /\ files' = res.files
    /\ users' = res.users
    /\ last' = [NoStoreCall EXCEPT !.op = "get", !.file = file, !.updating = updating,
                   !.created = res.created, !.regenerated = res.regenerated,
                   !.changed = (res.files[file] # files[file]), !.data = res.data,
                   !.pre = files[file], !.preUsers = users, !.prev = Summary(last)]
    /\ UNCHANGED <<config, now, call>>

UpdateQuestData(randoms) ==
    LET res == UpdateQuestDataOn(files, config, now, randoms) IN
    /\ files' = res.files
    /\ last' = [NoStoreCall EXCEPT !.op = "updateQuest", !.file = "Quest",
                   !.created = (files["Quest"].status # "ok"), !.regenerated = TRUE,
                   !.changed = (res.files["Quest"] # files["Quest"]), !.data = res.data,
                   !.pre = files["Quest"], !.preUsers = users, !.prev = Summary(last)]
    /\ UNCHANGED <<config, users, now, call>>

NextStore ==
    \/ \E updating \in BOOLEAN : \E randoms \in RandomsOf(last.file, updating) :
            GetGlobalData(last.file, updating, randoms)
    \/ \E randoms \in QuestRandoms(files, config) :
            last.file = "Quest" /\ UpdateQuestData(randoms)

SpecStore == InitStore /\ [][NextStore]_vars

\* The document the last call found, as the call read it.
StoredBefore == IF last.pre.status = "ok" THEN last.pre.data
                ELSE DefaultData(config, last.file)

Reconciled == last.op = "get" /\ last.updating

(***************************************************************************)
(* C6: for Items, Leaderboards and Quest, the second of two successive     *)
(* getGlobalData(kind, true) calls under an unchanged configuration leaves *)
(* the persisted document identical to the one the first call persisted,   *)
(* whatever the document was before the first call.                        *)
(***************************************************************************)
C6_SecondReconcileIdentical ==
    (/\ Reconciled
     /\ last.file \in {"Items", "Leaderboards", "Quest"}
     /\ last.prev.op = "get" /\ last.prev.updating /\ last.prev.file = last.file) =>
        /\ files[last.file] = last.pre
        /\ ~last.changed /\ ~last.created /\ ~last.regenerated

\* The second call after a first call that did rewrite the document.
C6_Witness ==
    /\ Reconciled /\ last.file = "Quest"
    /\ last.prev.op = "get" /\ last.prev.updating /\ last.prev.changed
    /\ files["Quest"] = last.pre

(***************************************************************************)
(* What the orders of a book hold for a user: a buy order holds the units  *)
(* filled and not claimed and the price of the units not filled, a sell    *)
(* order the units not sold and the price of the units sold and not        *)
(* claimed.                                                                *)
(***************************************************************************)
BuyUnits(o) == o.filledAmount - o.claimedAmount
BuyScore(o) == (o.num - o.filledAmount) * o.price
SellUnits(o) == o.num - o.filledAmount
SellScore(o) == (o.filledAmount - o.claimedAmount) * o.price

\* The sum of f over the set S.
RECURSIVE SumSet(_, _)
SumSet(f, S) ==
    IF S = {} THEN 0
    ELSE LET x == CHOOSE x \in S : TRUE IN f[x] + SumSet(f, S \ {x})

Of(orders, userID) == {i \in DOMAIN orders : orders[i].userID = userID}

HeldUnits(book, userID) ==
    SumSet([i \in DOMAIN book.buyers |-> BuyUnits(book.buyers[i])], Of(book.buyers, userID))
    + SumSet([i \in DOMAIN book.sellers |-> SellUnits(book.sellers[i])], Of(book.sellers, userID))
HeldScore(book, userID) ==
    SumSet([i \in DOMAIN book.buyers |-> BuyScore(book.buyers[i])], Of(book.buyers, userID))
    + SumSet([i \in DOMAIN book.sellers |-> SellScore(book.sellers[i])], Of(book.sellers, userID))

\* The powerups the last call found in the document and not in the configuration.
RetiredKeys == {k \in Keys(StoredBefore.powerups) : ~Includes(config.powerups, k)}

UnitsOf(us, userID, powerupID) == us[userID].itemCollection.powerups[powerupID].numTotal
ScoreOf(us, userID) == us[userID].stats.general.boarScore

(***************************************************************************)
(* C7: when getGlobalData(Items, true) finds a powerup that the            *)
(* configuration lacks, every buy order on it credits its buyer with       *)
(* filledAmount - claimedAmount units and (num - filledAmount) * price     *)
(* score, every sell order credits its seller with num - filledAmount      *)
(* units and (filledAmount - claimedAmount) * price score, the key is      *)
(* deleted, and the compensation credited to the users in total is the     *)
(* value the retired keys' orders held.                                    *)
(***************************************************************************)
C7_CompensationConserved ==
    (Reconciled /\ last.file = "Items") =>
        LET stored == StoredBefore.powerups
            held == [userID \in Users |->
                        SumSet([k \in RetiredKeys |-> HeldScore(Get(stored, k), userID)],
                               RetiredKeys)]
            credited == [userID \in Users |->
                            ScoreOf(users, userID) - ScoreOf(last.preUsers, userID)]
        IN  /\ \A userID \in Users, powerupID \in PowerupIDs :
                UnitsOf(users, userID, powerupID) - UnitsOf(last.preUsers, userID, powerupID)
                    = IF powerupID \in RetiredKeys
                      THEN HeldUnits(Get(stored, powerupID), userID)
                      ELSE 0
            /\ \A userID \in Users : credited[userID] = held[userID]
            /\ SumSet(credited, Users) = SumSet(held, Users)
            /\ \A k \in RetiredKeys : ~Has(files["Items"].data.powerups, k)

\* A retired powerup with a buy and a sell order that both pay units and score.
C7_Witness ==
    /\ Reconciled /\ last.file = "Items"
    /\ \E k \in RetiredKeys :
          LET book == Get(StoredBefore.powerups, k) IN
          /\ book.buyers # <<>> /\ book.sellers # <<>>
          /\ BuyUnits(book.buyers[1]) > 0 /\ BuyScore(book.buyers[1]) > 0
          /\ UnitsOf(users, book.buyers[1].userID, k) > 0
          /\ ScoreOf(users, book.buyers[1].userID) > 0

(***************************************************************************)
(* C8: after getGlobalData(kind, true) for Items or Leaderboards, the key  *)
(* set of the returned dataset and of the persisted dataset (powerup IDs,  *)
(* board IDs) is exactly the configured key set, whatever the document     *)
(* held before.                                                            *)
(***************************************************************************)
ConfiguredKeys == IF last.file = "Items"
                  THEN {config.powerups[i] : i \in DOMAIN config.powerups}
                  ELSE {config.choices[i] : i \in DOMAIN config.choices}

DatasetKeys(data) == IF last.file = "Items" THEN Keys(data.powerups) ELSE Keys(data)

C8_KeysAreConfigured ==
    (Reconciled /\ last.file \in {"Items", "Leaderboards"}) =>
        /\ DatasetKeys(last.data) = ConfiguredKeys
        /\ files[last.file].status = "ok"
        /\ DatasetKeys(files[last.file].data) = ConfiguredKeys

\* The document held a key the configuration lacks and lacked a configured one.
C8_Witness ==
    /\ Reconciled /\ last.file = "Leaderboards"
    /\ last.pre.status = "ok"
    /\ DatasetKeys(last.pre.data) \ ConfiguredKeys # {}
    /\ ConfiguredKeys \ DatasetKeys(last.pre.data) # {}
    /\ DatasetKeys(files[last.file].data) = ConfiguredKeys

(***************************************************************************)
(* Quest regeneration.                                                     *)
(***************************************************************************)
PoolIDs == {config.questIDs[i] : i \in DOMAIN config.questIDs}

Distinct(ids, n) == \A i, j \in 1..n : ids[i] = ids[j] => i = j

(***************************************************************************)
(* C9 as stated: whenever quest regeneration runs, for every non-empty     *)
(* configured pool and every stored curQuestIDs length n, the new          *)
(* curQuestIDs has length n and consists of n pairwise distinct IDs of the *)
(* pool.                                                                   *)
(***************************************************************************)
C9_DistinctPoolIDs ==
    (last.regenerated /\ config.questIDs # <<>>) =>
        LET n == Len(StoredBefore.curQuestIDs)
            ids == last.data.curQuestIDs
        IN  /\ Len(ids) = n
            /\ \A i \in 1..n : ids[i] \in PoolIDs
            /\ Distinct(ids, n)

(***************************************************************************)
(* C9 as amended: whenever quest regeneration runs with a stored           *)
(* curQuestIDs of length n, the new curQuestIDs has length n; when the     *)
(* configured pool has at least n IDs it consists of n pairwise distinct   *)
(* IDs of the pool, and the persisted document holds the same IDs; when    *)
(* the pool has fewer than n IDs, the first entries are the pool's IDs,    *)
(* each once, and the remaining entries are undefined (persisted as null). *)
(***************************************************************************)
C9_DistinctWhenPoolSuffices ==
    last.regenerated =>
        LET n == Len(StoredBefore.curQuestIDs)
            size == Len(config.questIDs)
            ids == last.data.curQuestIDs
        IN  /\ Len(ids) = n
            /\ size >= n =>
                  /\ \A i \in 1..n : ids[i] \in PoolIDs
                  /\ Distinct(ids, n)
                  /\ files["Quest"].data.curQuestIDs = ids
            /\ size < n =>
                  /\ {ids[i] : i \in 1..size} = PoolIDs
                  /\ \A i \in (size + 1)..n : ids[i] = Undefined
                  /\ \A i \in (size + 1)..n : files["Quest"].data.curQuestIDs[i] = Null

\* The scenario: three stored IDs, a week start eight days old, a pool of
\* three, three distinct pool IDs drawn by getGlobalData(Quest, true).
C9_Witness ==
    /\ last.regenerated /\ last.op = "get"
    /\ last.pre.status = "ok"
    /\ last.pre.data.questsStartTimestamp = now - 8 * TicksPerDay
    /\ Len(last.pre.data.curQuestIDs) = 3
    /\ Len(config.questIDs) = 3
    /\ Distinct(last.data.curQuestIDs, 3)
    /\ last.data.curQuestIDs[1] # config.questIDs[1]

(***************************************************************************)
(* C10: getGlobalData(kind) on a missing or unparsable document creates    *)
(* the kind's default (an empty BoardData per configured metric, an empty  *)
(* ItemData per configured powerup, the empty defaults otherwise),         *)
(* persists it and returns it, and the getGlobalData(kind) that follows    *)
(* reads the same value back without creating it again.                    *)
(***************************************************************************)
C10_DefaultCreatedOnce ==
    (last.op = "get" /\ ~last.updating) =>
        /\ last.pre.status # "ok" =>
              /\ last.created
              /\ last.data = DefaultData(config, last.file)
              /\ files[last.file] = Document(last.data)
              /\ last.file = "Items" =>
                    /\ Keys(last.data.powerups) = ConfiguredKeys
                    /\ \A k \in ConfiguredKeys : Get(last.data.powerups, k) = NewItemData
              /\ last.file = "Leaderboards" =>
                    /\ Keys(last.data) = ConfiguredKeys
                    /\ \A k \in ConfiguredKeys : Get(last.data, k) = NewBoardData
        /\ last.pre.status = "ok" => (~last.created /\ last.data = last.pre.data)
        /\ (last.prev.op = "get" /\ last.prev.created /\ ~last.prev.updating) =>
              /\ ~last.created /\ ~last.changed
              /\ last.data = DefaultData(config, last.file)

\* The read that follows a creating read, on a document that did not parse.
C10_Witness ==
    /\ last.op = "get" /\ ~last.updating /\ ~last.created
    /\ last.prev.op = "get" /\ last.prev.created /\ ~last.prev.updating
    /\ last.file = "Leaderboards"
    /\ files[last.file] = Document(DefaultData(config, last.file))

(***************************************************************************)
(* Write failures.  fs.writeFileSync throws when the disk refuses the      *)
(* write (disk = "failing") and leaves the document as it was.  A call's   *)
(* outcome records the writes it attempted, whether one failed, and        *)
(* whether the exception reached the caller of the operation.              *)
(***************************************************************************)
Disks == {"ok", "failing"}

Outcome(fs, us, writes, failed, surfaced) ==
    [files |-> fs, users |-> us, writes |-> writes, failed |-> failed, surfaced |-> surfaced]

\* saveGlobalData(data, file): no try around fs.writeFileSync.
SaveGlobalDataWith(fs, us, data, file, disk) ==
    IF disk = "ok"
    THEN Outcome(SaveGlobalData(fs, data, file), us, 1, FALSE, FALSE)
    ELSE Outcome(fs, us, 1, TRUE, TRUE)

\* getGlobalData(file, updating): the save of a created default and the save
\* of the reconciled data are outside the try block around the read.
GetGlobalDataWith(fs, us, cfg, t, file, updating, randoms, disk) ==
    LET res == GetGlobalDataOn(fs, us, cfg, t, file, updating, randoms)
        creates == fs[file].status # "ok"
        redraws == updating /\ file = "Quest"
                   /\ QuestExpired(LoadGlobalData(fs, cfg, file).data, cfg, t)
    IN  IF disk = "ok"
        THEN Outcome(res.files, res.users,
                     (IF creates THEN 1 ELSE 0) + (IF redraws THEN 1 ELSE 0)
                        + (IF updating THEN 1 ELSE 0),
                     FALSE, FALSE)
        ELSE IF creates THEN Outcome(fs, us, 1, TRUE, TRUE)
        ELSE IF updating THEN Outcome(fs, res.users, 1, TRUE, TRUE)
        ELSE Outcome(fs, us, 0, FALSE, FALSE)

\* updateLeaderboardData: getGlobalData and saveGlobalData run inside
\* try { } catch (err) { LogDebug.handleError(err, inter) }.
UpdateLeaderboardDataWith(fs, us, cfg, boarUser, disk) ==
    LET res == UpdateLeaderboardDataOn(fs, cfg, boarUser)
        creates == fs["Leaderboards"].status # "ok"
    IN  IF disk = "ok"
        THEN Outcome(res.files, us,
                     (IF creates THEN 1 ELSE 0) + (IF res.threw THEN 0 ELSE 1), FALSE, FALSE)
        ELSE IF creates \/ ~res.threw THEN Outcome(fs, us, 1, TRUE, FALSE)
        ELSE Outcome(fs, us, 0, FALSE, FALSE)

\* removeLeaderboardUser: the same try / catch.
RemoveLeaderboardUserWith(fs, us, cfg, userID, disk) ==
    LET res == RemoveLeaderboardUserOn(fs, cfg, userID)
        creates == fs["Leaderboards"].status # "ok"
    IN  IF disk = "ok"
        THEN Outcome(res.files, us,
                     (IF creates THEN 1 ELSE 0) + (IF res.threw THEN 0 ELSE 1), FALSE, FALSE)
        ELSE IF creates \/ ~res.threw THEN Outcome(fs, us, 1, TRUE, FALSE)
        ELSE Outcome(fs, us, 0, FALSE, FALSE)

NoWriteCall == [op |-> "none", file |-> "", disk |-> "ok", writes |-> 0,
                failed |-> FALSE, surfaced |-> FALSE]

WriteCall(op, file, disk, out) ==
    [op |-> op, file |-> file, disk |-> disk, writes |-> out.writes,
     failed |-> out.failed, surfaced |-> out.surfaced]

InitWrite ==
    /\ \E c \in ChoiceConfigs :
            config = [StoreConfig EXCEPT !.choices = c, !.questIDs = <<"q1">>]
    /\ files = NoFiles
    /\ users = [u \in Users |-> NewUserData]
    /\ now = 21 * TicksPerDay
    /\ last = NoWriteCall
    /\ call = NoDraw

\* A caller saves the data it holds: here the data it has just loaded.
SaveGlobalDataCall(file, disk) ==
    LET out == SaveGlobalDataWith(files, users, LoadGlobalData(files, config, file).data,
                                  file, disk) IN
    /\ files' = out.files
    /\ last' = WriteCall("save", file, disk, out)
    /\ UNCHANGED <<config, users, now, call>>

GetGlobalDataCall(file, updating, randoms, disk) ==
    LET out == GetGlobalDataWith(files, users, config, now, file, updating, randoms, disk) IN
    /\ files' = out.files
    /\ users' = out.users
    /\ last' = WriteCall("get", file, disk, out)
    /\ UNCHANGED <<config, now, call>>

UpdateLeaderboardDataCall(userID, a, disk) ==
    LET out == UpdateLeaderboardDataWith(files, users, config, BoarUser(userID, a, a), disk) IN
    /\ files' = out.files
    /\ last' = WriteCall("update", "Leaderboards", disk, out)
    /\ UNCHANGED <<config, users, now, call>>

RemoveLeaderboardUserCall(userID, disk) ==
    LET out == RemoveLeaderboardUserWith(files, users, config, userID, disk) IN
    /\ files' = out.files
    /\ last' = WriteCall("remove", "Leaderboards", disk, out)
    /\ UNCHANGED <<config, users, now, call>>

NextWrite ==
    \/ \E file \in GlobalFile, disk \in Disks : SaveGlobalDataCall(file, disk)
    \/ \E file \in GlobalFile, updating \in BOOLEAN, disk \in Disks :
            \E randoms \in RandomsOf(file, updating) :
                GetGlobalDataCall(file, updating, randoms, disk)
    \/ \E userID \in Users, a \in Stats, disk \in Disks :
            UpdateLeaderboardDataCall(userID, a, disk)
    \/ \E userID \in Users, disk \in Disks : RemoveLeaderboardUserCall(userID, disk)

SpecWrite == InitWrite /\ [][NextWrite]_vars

(***************************************************************************)
(* C11: a write failure of the backing document during a store operation   *)
(* that saves (saveGlobalData, getGlobalData, updateLeaderboardData,       *)
(* removeLeaderboardUser) is surfaced to the caller of that operation as   *)
(* an error, and the write is not retried.                                 *)
(***************************************************************************)
C11_WriteFailureSurfaced ==
    last.failed => (last.surfaced /\ last.writes = 1)

(***************************************************************************)
(* The document holds the user's recomputed entry in every metric.         *)
(***************************************************************************)
ReflectsEveryMetric(document, boarUser, cfg) ==
    /\ document.status = "ok"
    /\ LET stmts == UpdateStatements(boarUser, cfg)
           userID == boarUser.user.id
       IN  \A i \in DOMAIN stmts :
              /\ Has(document.data, stmts[i][1])
              /\ LET userData == Get(document.data, stmts[i][1]).userData IN
                 IF stmts[i][2] > 0
                 THEN userID \in DOMAIN userData
                      /\ userData[userID] = <<Username(userID), stmts[i][2]>>
                 ELSE userID \notin DOMAIN userData

(***************************************************************************)
(* C12 as stated: in every execution of updateLeaderboardData, including   *)
(* ones that fail part-way through, the persisted leaderboard document is  *)
(* either unchanged from before the call or reflects the user's recomputed *)
(* entry in every metric.                                                  *)
(***************************************************************************)
C12_UnchangedOrComplete ==
    [][last'.op = "update" =>
          \/ files'["Leaderboards"] = files["Leaderboards"]
          \/ ReflectsEveryMetric(files'["Leaderboards"], last'.boarUser, config)]_vars

(***************************************************************************)
(* C12 as amended: in every execution of updateLeaderboardData, including  *)
(* ones that fail part-way through, the persisted leaderboard document is  *)
(* either the document the call loaded (the document from before the call, *)
(* or the default that getGlobalData created and persisted because the     *)
(* document was missing or unparsable) or reflects the user's recomputed   *)
(* entry in every metric; a document with only some metrics updated is     *)
(* never persisted.                                                        *)
(***************************************************************************)
C12_LoadedOrComplete ==
    [][last'.op = "update" =>
          \/ files'["Leaderboards"] = files["Leaderboards"]
          \/ /\ files["Leaderboards"].status # "ok"
             /\ files'["Leaderboards"] = Document(DefaultData(config, "Leaderboards"))
          \/ ReflectsEveryMetric(files'["Leaderboards"], last'.boarUser, config)]_vars

\* An update that failed part-way: the bucks entry it had computed is not in
\* the persisted document.
C12_Witness ==
    /\ last.op = "update" /\ last.threw
    /\ last.boarUser.stats.general.boarScore > 0
    /\ Has(Boards, "bucks")
    /\ ~HasEntry("bucks", last.userID)

(***************************************************************************)
(* The guild data folder: one document per guild.  A caller keeps the      *)
(* guildData that getGuildData returned for a guild (call.guildData) and   *)
(* passes it to removeGuildFile together with the guild's path.            *)
(***************************************************************************)
GuildIDs == {"g1", "g2"}

\* A GuildData | undefined value: the empty sequence is undefined.
Absent == <<>>
Present(guildData) == <<guildData>>

NewGuildData == [fullySetup |-> FALSE, isSBServer |-> FALSE]

StoredGuildDatas == [fullySetup : BOOLEAN, isSBServer : BOOLEAN]

GuildDocuments == {Missing, Corrupt} \cup {Document(d) : d \in StoredGuildDatas}

\* getGuildData with the create flag ignored: a default is always written.
GetGuildDataAlwaysCreates(fs, guildID, create) ==
    IF guildID = Undefined THEN [files |-> fs, guildData |-> Absent]
    ELSE IF fs[guildID].status = "ok" THEN [files |-> fs, guildData |-> Present(fs[guildID].data)]
    ELSE [files |-> [fs EXCEPT ![guildID] = Document(NewGuildData)],
          guildData |-> Present(NewGuildData)]

\* getGuildData(guildID, interaction, create): the document parsed; when the
\* read or the parse throws, a default written and read back if create,
\* undefined otherwise.
GetGuildDataOn(fs, guildID, create) ==
    IF guildID = Undefined THEN [files |-> fs, guildData |-> Absent]
    ELSE IF fs[guildID].status = "ok" THEN [files |-> fs, guildData |-> Present(fs[guildID].data)]
    ELSE IF create
    THEN LET written == [fs EXCEPT ![guildID] = Document(NewGuildData)]
         IN  [files |-> written, guildData |-> Present(written[guildID].data)]
    ELSE [files |-> fs, guildData |-> Absent]

\* removeGuildFile without the fullySetup test.
RemoveGuildFileUnguarded(fs, guildID, guildData) ==
    IF guildData = Absent THEN fs
    ELSE [fs EXCEPT ![guildID] = Missing]

\* removeGuildFile(guildDataPath, guildData): fs.rmSync unless the data is
\* absent or fullySetup; rmSync of a missing file throws and is logged.
RemoveGuildFileOn(fs, guildID, guildData) ==
    IF guildData = Absent THEN fs
    ELSE IF guildData[1].fullySetup THEN fs
    ELSE [fs EXCEPT ![guildID] = Missing]

NoGuildCall == [op |-> "none", guildID |-> Undefined, create |-> FALSE,
                guildData |-> Absent, pre |-> Missing]

InitGuild ==
    /\ config = BaseConfig
    /\ files \in [GuildIDs -> GuildDocuments]
    /\ users = <<>>
    /\ now = 0
    /\ last = NoGuildCall
    /\ call = [guildData |-> [g \in GuildIDs |-> Absent]]

GetGuildData(guildID, create) ==
    LET res == GetGuildDataOn(files, guildID, create) IN
    /\ files' = res.files
    /\ call' = IF guildID = Undefined THEN call
               ELSE [call EXCEPT !.guildData[guildID] = res.guildData]
    /\ last' = [op |-> "get", guildID |-> guildID, create |-> create,
                guildData |-> res.guildData,
                pre |-> IF guildID = Undefined THEN Missing ELSE files[guildID]]
    /\ UNCHANGED <<config, users, now>>

RemoveGuildFile(guildID) ==
    /\ files' = RemoveGuildFileOn(files, guildID, call.guildData[guildID])
    /\ last' = [op |-> "remove", guildID |-> guildID, create |-> FALSE,
                guildData |-> call.guildData[guildID], pre |-> files[guildID]]
    /\ UNCHANGED <<config, users, now, call>>

NextGuild ==
    \/ \E guildID \in GuildIDs \cup {Undefined}, create \in BOOLEAN :
            GetGuildData(guildID, create)
    \/ \E guildID \in GuildIDs : RemoveGuildFile(guildID)

SpecGuild == InitGuild /\ [][NextGuild]_vars

(***************************************************************************)
(* C13: after any sequence of getGuildData and removeGuildFile calls,      *)
(* removeGuildFile never deletes the document of a guild whose data has    *)
(* fullySetup true, does nothing when the guild data is absent, and        *)
(* deletes the document when fullySetup is false.                          *)
(***************************************************************************)
C13_FullySetupKept ==
    last.op = "remove" =>
        /\ (last.pre.status = "ok" /\ last.pre.data.fullySetup) =>
              files[last.guildID] = last.pre
        /\ last.guildData = Absent => files[last.guildID] = last.pre
        /\ (last.guildData # Absent /\ last.guildData[1].fullySetup) =>
              files[last.guildID] = last.pre
        /\ (last.guildData # Absent /\ ~last.guildData[1].fullySetup) =>
              files[last.guildID] = Missing

\* removeGuildFile called with the data of a fully set up guild.
C13_Witness ==
    /\ last.op = "remove"
    /\ last.guildData # Absent /\ last.guildData[1].fullySetup
    /\ files[last.guildID] = Document(last.guildData[1])

(***************************************************************************)
(* C14: getGuildData(guildID, create) on a guild with no readable document *)
(* returns undefined and creates no document when create is false; when    *)
(* create is true it persists a default GuildData (fullySetup false) and   *)
(* returns it; when a readable document exists it returns it and writes    *)
(* nothing, for either value of create.                                    *)
(***************************************************************************)
C14_GetGuildData ==
    (last.op = "get" /\ last.guildID # Undefined) =>
        /\ (last.pre.status # "ok" /\ ~last.create) =>
              (last.guildData = Absent /\ files[last.guildID] = last.pre)
        /\ (last.pre.status # "ok" /\ last.create) =>
              /\ files[last.guildID] = Document(NewGuildData)
              /\ last.guildData = Present(NewGuildData)
              /\ ~last.guildData[1].fullySetup
        /\ last.pre.status = "ok" =>
              (last.guildData = Present(last.pre.data) /\ files[last.guildID] = last.pre)

\* A request without create on a document that does not parse.
C14_Witness ==
    /\ last.op = "get" /\ last.guildID # Undefined
    /\ last.pre = Corrupt /\ ~last.create
    /\ last.guildData = Absent
    /\ files[last.guildID] = Corrupt

(***************************************************************************)
(* findRarity: the rank of a boar's rarity.                                *)
(***************************************************************************)
\* The comparator with its operands exchanged: ascending by weight.
RECURSIVE InsertRarityAscending(_, _)
InsertRarityAscending(s, rarity) ==
    IF s = <<>> THEN <<rarity>>
    ELSE IF rarity.weight < Head(s).weight THEN <<rarity>> \o s
    ELSE <<Head(s)>> \o InsertRarityAscending(Tail(s), rarity)

\* Array.prototype.sort with (rarity1, rarity2) => rarity2.weight -
\* rarity1.weight: descending by weight, equal weights in their given order.
RECURSIVE InsertRarity(_, _)
InsertRarity(s, rarity) ==
    IF s = <<>> THEN <<rarity>>
    ELSE IF rarity.weight > Head(s).weight THEN <<rarity>> \o s
    ELSE <<Head(s)>> \o InsertRarity(Tail(s), rarity)

RECURSIVE OrderedRarities(_)
OrderedRarities(rarities) ==
    IF rarities = <<>> THEN <<>>
    ELSE InsertRarity(OrderedRarities(SubSeq(rarities, 1, Len(rarities) - 1)),
                      rarities[Len(rarities)])

\* The loop of findRarity from position i (counting from 1) on.
RECURSIVE ScanRarities(_, _, _)
ScanRarities(orderedRarities, boarID, i) ==
    IF i > Len(orderedRarities)
    THEN [rank |-> 0,
          rarity |-> IF orderedRarities = <<>> THEN Undefined
                     ELSE orderedRarities[Len(orderedRarities)]]
    ELSE IF Includes(orderedRarities[i].boars, boarID)
    THEN [rank |-> i, rarity |-> orderedRarities[i]]
    ELSE ScanRarities(orderedRarities, boarID, i + 1)

\* findRarity returning the position counted from 0.
FindRarityFromZero(boarID, cfg) ==
    LET found == ScanRarities(OrderedRarities(cfg.rarityConfigs), boarID, 1)
    IN  IF found.rank = 0 THEN found ELSE [found EXCEPT !.rank = @ - 1]

\* findRarity(boarID, config) = [rank, rarity]
FindRarity(boarID, cfg) == ScanRarities(OrderedRarities(cfg.rarityConfigs), boarID, 1)

\* The boar IDs asked for: the configured ones and one no tier holds.
AskedBoarIDs == {DrawBoarIDs[j] : j \in DOMAIN DrawBoarIDs} \cup {"b0"}

NoRarityCall == [op |-> "none", boarID |-> "", rank |-> 0, rarity |-> <<>>]

InitRarity ==
    /\ \E n \in 1..MaxTiers : \E r \in RarityConfigs(n) :
            config = [BaseConfig EXCEPT !.rarityConfigs = r,
                                        !.boarItemConfigs = PlainBoarItemConfigs]
    /\ files = NoFiles
    /\ users = <<>>
    /\ now = 0
    /\ last = NoRarityCall
    /\ call = NoDraw

FindRarityCall(boarID) ==
    LET found == FindRarity(boarID, config) IN
    /\ last' = [op |-> "findRarity", boarID |-> boarID,
                rank |-> found.rank, rarity |-> found.rarity]
    /\ UNCHANGED <<config, files, users, now, call>>

NextRarity == \E boarID \in AskedBoarIDs : FindRarityCall(boarID)

SpecRarity == InitRarity /\ [][NextRarity]_vars

\* The positions (from 1) of the configured tiers that hold the boar.
TiersOf(boarID) ==
    {k \in DOMAIN config.rarityConfigs : Includes(config.rarityConfigs[k].boars, boarID)}

\* The 1-based position of tier k in descending-weight order, tiers of equal
\* weight keeping their configured order.
RankOf(k) ==
    1 + Cardinality({j \in DOMAIN config.rarityConfigs :
            \/ config.rarityConfigs[j].weight > config.rarityConfigs[k].weight
            \/ /\ config.rarityConfigs[j].weight = config.rarityConfigs[k].weight
               /\ j < k})

(***************************************************************************)
(* C15: findRarity(itemID) returns (rank, tier) where tier contains itemID *)
(* and rank is the tier's 1-based position in descending-weight order      *)
(* whenever some tier contains the ID; it returns rank 0 together with the *)
(* lowest-weight tier exactly when no tier contains the ID.                *)
(***************************************************************************)
C15_RankOfTier ==
    last.op = "findRarity" =>
        /\ TiersOf(last.boarID) # {} =>
              \E k \in TiersOf(last.boarID) :
                  /\ last.rarity = config.rarityConfigs[k]
                  /\ last.rank = RankOf(k)
                  /\ last.rank >= 1
                  /\ \A j \in TiersOf(last.boarID) : RankOf(k) <= RankOf(j)
        /\ TiersOf(last.boarID) = {} =>
              /\ last.rank = 0
              /\ \A j \in DOMAIN config.rarityConfigs :
                    last.rarity.weight <= config.rarityConfigs[j].weight
        /\ last.rank = 0 <=> TiersOf(last.boarID) = {}

\* A boar of the lighter of two tiers, the lighter tier configured first.
C15_Witness ==
    /\ last.op = "findRarity"
    /\ Len(config.rarityConfigs) = 2
    /\ config.rarityConfigs[1].weight < config.rarityConfigs[2].weight
    /\ Includes(config.rarityConfigs[1].boars, last.boarID)
    /\ last.rank = 2

(***************************************************************************)
(* The single draw, read from the finished call.                           *)
(***************************************************************************)
Drawn == call.pc = "done" /\ call.weightTotal > 0

\* The weight getBaseRarityWeights gives the tier stored under a key.
BaseWeight(rarityIndex) ==
    IF Rarity(config, rarityIndex).fromDaily THEN Rarity(config, rarityIndex).weight ELSE 0

(***************************************************************************)
(* C16: a tier whose fromDaily flag is false (weight forced to 0 by        *)
(* getBaseRarityWeights) is never the tier selected by getRandBoars, for   *)
(* every tier sample in [0,1) including 0, whenever at least one tier has  *)
(* positive weight.                                                        *)
(***************************************************************************)
C16_UndrawableNeverSelected ==
    Drawn => Rarity(config, call.rolled[1]).fromDaily

(***************************************************************************)
(* C18: for every weight mapping with positive total and every sample s in *)
(* [0,1), the draw selects the first tier, in ascending order of           *)
(* cumulative boundary, whose boundary is >= s; equivalently the tier at   *)
(* position k is selected exactly for the samples s with                   *)
(* boundary(k-1) < s <= boundary(k) (from 0 for the first tier), an        *)
(* interval of width weight / total.                                       *)
(***************************************************************************)
BoundaryAtLeastSample(k) ==
    call.probabilities[k][2] * RandDenom >= call.randomRarity * call.weightTotal

C18_FirstBoundaryAtLeastSample ==
    Drawn =>
        LET probabilities == call.probabilities
            n == Len(probabilities)
            Lower(k) == IF k = 1 THEN 0 ELSE probabilities[k - 1][2]
        IN  /\ {probabilities[k][1] : k \in 1..n} = 0..(Len(config.rarityConfigs) - 1)
            /\ n = Len(config.rarityConfigs)
            /\ \A k \in 1..n :
                  /\ Lower(k) <= probabilities[k][2]
                  /\ probabilities[k][2] - Lower(k) = BaseWeight(probabilities[k][1])
            /\ probabilities[n][2] = call.weightTotal
            /\ \E k \in 1..n :
                  /\ call.rolled[1] = probabilities[k][1]
                  /\ BoundaryAtLeastSample(k)
                  /\ \A j \in 1..(k - 1) : ~BoundaryAtLeastSample(j)
            /\ \A k \in 1..n :
                  call.rolled[1] = probabilities[k][1] <=>
                      /\ k = 1 \/ call.randomRarity * call.weightTotal > Lower(k) * RandDenom
                      /\ BoundaryAtLeastSample(k)

\* A sample that lies on the first boundary and selects the first tier.
C18_Witness ==
    /\ Drawn
    /\ Len(call.probabilities) >= 2
    /\ call.probabilities[1][2] > 0
    /\ call.probabilities[1][2] * RandDenom = call.randomRarity * call.weightTotal
    /\ call.rolled[1] = call.probabilities[1][1]

(***************************************************************************)
(* C19 as stated: the keys of the mapping returned by getBaseRarityWeights *)
(* are tier ranks as defined by findRarity: for every rarity configuration *)
(* and every item i of tier t, the key under which t's weight is stored is *)
(* the rank findRarity(i) returns, so an item drawn via key k has          *)
(* findRarity rank k.                                                      *)
(***************************************************************************)
C19_KeyIsRank ==
    call.pc = "done" =>
        /\ \A k \in DOMAIN config.rarityConfigs :
              \A j \in DOMAIN config.rarityConfigs[k].boars :
                  GetBaseRarityWeights(config)[k][1]
                      = FindRarity(config.rarityConfigs[k].boars[j], config).rank
        /\ (call.boarIDs # <<>> /\ call.boarIDs[1] # "") =>
              FindRarity(call.boarIDs[1], config).rank = call.rolled[1]

\* The tiers are configured in descending order of weight.
DescendingConfig ==
    \A j, k \in DOMAIN config.rarityConfigs :
        j < k => config.rarityConfigs[j].weight >= config.rarityConfigs[k].weight

(***************************************************************************)
(* C19 as amended: the keys of the mapping returned by getBaseRarityWeights*)
(* are the 0-based positions of the tiers in config.rarityConfigs: the     *)
(* weight of the tier at position k is stored under key k, and an item     *)
(* drawn via key k by getRandBoars/findValid belongs to the tier at        *)
(* position k.  For an item i of that tier findRarity(i) returns the       *)
(* tier's 1-based position in descending-weight order, which is k + 1      *)
(* when the tiers are configured in descending order of weight.            *)
(***************************************************************************)
C19_KeyIsConfigPosition ==
    call.pc = "done" =>
        /\ \A k \in DOMAIN config.rarityConfigs :
              /\ GetBaseRarityWeights(config)[k][1] = k - 1
              /\ GetBaseRarityWeights(config)[k][2] = BaseWeight(k - 1)
              /\ \A j \in DOMAIN config.rarityConfigs[k].boars :
                    LET rank == FindRarity(config.rarityConfigs[k].boars[j], config).rank
                    IN  /\ rank = RankOf(k)
                        /\ DescendingConfig => rank = GetBaseRarityWeights(config)[k][1] + 1
        /\ (call.boarIDs # <<>> /\ call.boarIDs[1] # "") =>
              /\ Includes(config.rarityConfigs[call.rolled[1] + 1].boars, call.boarIDs[1])
              /\ FindRarity(call.boarIDs[1], config).rank = RankOf(call.rolled[1] + 1)
              /\ DescendingConfig =>
                    FindRarity(call.boarIDs[1], config).rank = call.rolled[1] + 1

\* A draw from the second of two tiers configured in descending order.
C19_Witness ==
    /\ call.pc = "done" /\ DescendingConfig
    /\ Len(config.rarityConfigs) = 2
    /\ config.rarityConfigs[1].weight > config.rarityConfigs[2].weight
    /\ call.rolled = <<1>>
    /\ call.boarIDs # <<>> /\ call.boarIDs[1] # ""
    /\ FindRarity(call.boarIDs[1], config).rank = 2

(***************************************************************************)
(* C17: in every state reachable by updateLeaderboardData and              *)
(* removeLeaderboardUser calls (the external tracker setting topUser       *)
(* consistently), each board's topUser, when set, refers to a user who has *)
(* an entry in that board's userData and whose score is the highest in     *)
(* that board.                                                             *)
(***************************************************************************)
C17_TopUserIsHighest ==
    \A i \in DOMAIN Boards :
        LET board == Boards[i][2] IN
        board.topUser # NoUser =>
            /\ board.topUser \in DOMAIN board.userData
            /\ \A userID \in DOMAIN board.userData :
                  board.userData[userID][2] <= board.userData[board.topUser][2]

(***************************************************************************)
(* The multiplier board: updateLeaderboardData for users whose base        *)
(* multiplier and number of active miracle stacks vary.                    *)
(***************************************************************************)
MaxStacks == 3

Multipliers == {-20, -1, 0, 1, 19, 20, 21, 40, 100}
IncreaseMaxes == {1, 2, 5}

MiracleUser(userID, multiplier, numActive) ==
    [BoarUser(userID, 0, 0) EXCEPT
        !.stats.general.multiplier = multiplier,
        !.itemCollection.powerups.miracle.numActive = numActive]

InitMiracle ==
    /\ \E c \in IncreaseMaxes : config = [BaseConfig EXCEPT !.miracleIncreaseMax = c]
    /\ files = NoFiles
    /\ users = <<>>
    /\ now = 0
    /\ last = NoCall
    /\ call = NoDraw

UpdateMiracleUser(userID, multiplier, numActive) ==
    LET boarUser == MiracleUser(userID, multiplier, numActive)
        res == UpdateLeaderboardDataOn(files, config, boarUser)
    IN  /\ files' = res.files
        /\ last' = [NoCall EXCEPT !.op = "update", !.file = "Leaderboards",
                       !.userID = userID, !.boarUser = boarUser, !.threw = res.threw]
        /\ UNCHANGED <<config, users, now, call>>

NextMiracle ==
    \E userID \in Users, multiplier \in Multipliers, numActive \in 0..MaxStacks :
        UpdateMiracleUser(userID, multiplier, numActive)

SpecMiracle == InitMiracle /\ [][NextMiracle]_vars

\* ceil(m * 0.05): the least integer c with 20 * c >= m.
CeilOfTwentieth(m) ==
    CHOOSE c \in ((m \div 20) - 1)..((m \div 20) + 1) : 20 * c >= m /\ 20 * (c - 1) < m

\* m_k of the claim: m_0 = m0, m_(i+1) = m_i + min(ceil(m_i * 0.05), cap).
Compounded(m0, k, cap) ==
    LET M[i \in 0..k] ==
            IF i = 0 THEN m0
            ELSE M[i - 1] + (IF CeilOfTwentieth(M[i - 1]) < cap
                             THEN CeilOfTwentieth(M[i - 1]) ELSE cap)
    IN  M[k]

(***************************************************************************)
(* C20: the value updateLeaderboardData stores in the multiplier board for *)
(* a user with integer base multiplier m0 and k active miracle stacks is   *)
(* m_k, where m_(i+1) = m_i + min(ceil(m_i * 0.05), miracleIncreaseMax),   *)
(* each step compounding on the previous one, and the entry is stored only *)
(* if m_k > 0.                                                             *)
(***************************************************************************)
C20_CompoundedMultiplier ==
    (last.op = "update" /\ ~last.threw) =>
        LET mk == Compounded(last.boarUser.stats.general.multiplier,
                             last.boarUser.itemCollection.powerups.miracle.numActive,
                             config.miracleIncreaseMax)
        IN  IF mk > 0
            THEN /\ HasEntry("multiplier", last.userID)
                 /\ BoardOf("multiplier").userData[last.userID]
                        = <<Username(last.userID), mk>>
            ELSE ~HasEntry("multiplier", last.userID)

\* Base 20 with two stacks and a cap of 5: 20 + 1 = 21, then 21 + 2 = 23.
C20_Witness ==
    /\ last.op = "update" /\ ~last.threw
    /\ last.boarUser.stats.general.multiplier = 20
    /\ last.boarUser.itemCollection.powerups.miracle.numActive = 2
    /\ config.miracleIncreaseMax = 5
    /\ HasEntry("multiplier", last.userID)
    /\ BoardOf("multiplier").userData[last.userID][2] = 23

(***************************************************************************)
(* C21: getGlobalData(Quest, true) regenerates the quest rotation if and   *)
(* only if questsStartTimestamp + 7 * oneDay < now; otherwise              *)
(* questsStartTimestamp and curQuestIDs are left unchanged; after a        *)
(* regeneration the new questsStartTimestamp is a week boundary with       *)
(* now - 7 * oneDay <= questsStartTimestamp <= now, so a reconcile         *)
(* immediately afterwards does not regenerate again.                       *)
(***************************************************************************)
C21_RegeneratesWhenExpired ==
    (Reconciled /\ last.file = "Quest") =>
        LET stored == StoredBefore
            persisted == files["Quest"].data
            start == persisted.questsStartTimestamp
        IN  /\ last.regenerated <=>
                  stored.questsStartTimestamp + 7 * config.oneDay < now
            /\ ~last.regenerated =>
                  /\ start = stored.questsStartTimestamp
                  /\ persisted.curQuestIDs = stored.curQuestIDs
            /\ last.regenerated =>
                  /\ start % TicksPerDay = 0
                  /\ UTCDay(start) = 0
                  /\ now - 7 * config.oneDay <= start
                  /\ start <= now
                  /\ ~(start + 7 * config.oneDay < now)
            /\ (last.prev.op = "get" /\ last.prev.updating) => ~last.regenerated

\* A stored week that ended, regenerated in the middle of a week.
C21_Witness ==
    /\ Reconciled /\ last.file = "Quest" /\ last.regenerated
    /\ last.pre.status = "ok"
    /\ UTCDay(now) = 3
    /\ files["Quest"].data.questsStartTimestamp = UTCMidnight(now) - 3 * TicksPerDay
    /\ files["Quest"].data.questsStartTimestamp # last.pre.data.questsStartTimestamp

\* The boards a call on the leaderboards starts from: the document, or the
\* default that getGlobalData creates.
LoadedBoards == LoadGlobalData(files, config, "Leaderboards").data

(***************************************************************************)
(* C22: removeLeaderboardUser(userID) leaves every other user's entries in *)
(* every board unchanged, leaves every topUser that is not userID          *)
(* unchanged, and leaves a cleared topUser unset: it never assigns topUser *)
(* to a remaining user.                                                    *)
(***************************************************************************)
C22_RemoveFrame ==
    [][last'.op = "remove" =>
          LET before == LoadedBoards
              after == files'["Leaderboards"].data
              userID == last'.userID
          IN  /\ files'["Leaderboards"].status = "ok"
              /\ KeySeq(after) = KeySeq(before)
              /\ \A i \in DOMAIN after :
                    LET old == before[i][2]
                        new == after[i][2]
                    IN  /\ DOMAIN new.userData \ {userID} = DOMAIN old.userData \ {userID}
                        /\ \A v \in DOMAIN new.userData \ {userID} :
                              new.userData[v] = old.userData[v]
                        /\ old.topUser # userID => new.topUser = old.topUser
                        /\ new.topUser \in {old.topUser, NoUser}]_vars

\* A remove that cleared the topUser of bucks while another user, the
\* topUser of total, keeps an entry in bucks.
C22_Witness ==
    /\ last.op = "remove" /\ ~last.threw
    /\ BoardOf("bucks").topUser = NoUser
    /\ \E v \in Users \ {last.userID} :
          /\ HasEntry("bucks", v)
          /\ BoardOf("total").topUser = v

(***************************************************************************)
(* The event loop: calls of updateLeaderboardData and                      *)
(* removeLeaderboardUser for different users are issued while others are   *)
(* still waiting, and the loop runs them one at a time in any order.       *)
(* updateLeaderboardData is synchronous; removeLeaderboardUser is async    *)
(* but awaits only in its catch block, after which it saves nothing, so    *)
(* each call runs from its load to its save in one step.  call holds, per  *)
(* user, the call issued for that user; last.pre holds the files as they   *)
(* were when the first call of the batch was issued.  A behaviour follows  *)
(* one batch, issued on boards that earlier updates and the top-holder     *)
(* tracker have filled.                                                    *)
(***************************************************************************)
IdleCall == [op |-> "none", pc |-> "idle", boarUser |-> <<>>, threw |-> FALSE, ran |-> 0]

NoCalls == [u \in Users |-> IdleCall]

NumRan == Cardinality({u \in Users : call[u].pc = "done"})

AllIdle == \A u \in Users : call[u].pc = "idle"

AllDone ==
    /\ \A u \in Users : call[u].pc # "pending"
    /\ \E u \in Users : call[u].pc = "done"

\* The boards after both users were updated and the tracker recorded the
\* highest scorers.
TrackedBoards(fs) ==
    IF fs["Leaderboards"].status # "ok" THEN fs
    ELSE LET boardsData == fs["Leaderboards"].data IN
         SaveGlobalData(fs,
            [i \in DOMAIN boardsData |->
                <<boardsData[i][1],
                  [boardsData[i][2] EXCEPT !.topUser = TopScorer(boardsData[i][2])]>>],
            "Leaderboards")

StartFiles(cfg) ==
    {NoFiles} \cup
    {TrackedBoards(second) :
        second \in {UpdateLeaderboardDataOn(first, cfg, BoarUser(2, a, b)).files :
                        first \in {UpdateLeaderboardDataOn(NoFiles, cfg, BoarUser(1, a, b)).files :
                                      a \in Stats, b \in {0, MaxStat}},
                        a \in Stats, b \in {0, MaxStat}}}

InitLoop ==
    /\ \E c \in ChoiceConfigs : config = [BaseConfig EXCEPT !.choices = c]
    /\ last = NoCall
    /\ call = NoCalls
    /\ files \in StartFiles(config)
    /\ users = <<>>
    /\ now = 0

Issue(userID, op, boarUser) ==
    /\ call[userID].pc = "idle"
    /\ call' = [call EXCEPT ![userID] =
                    [IdleCall EXCEPT !.op = op, !.pc = "pending", !.boarUser = boarUser]]
    /\ last' = IF AllIdle
               THEN [NoCall EXCEPT !.op = "batch", !.file = "Leaderboards", !.pre = files]
               ELSE last
    /\ UNCHANGED <<config, files, users, now>>

IssueUpdate(userID, a, b) == Issue(userID, "update", BoarUser(userID, a, b))

IssueRemove(userID) == Issue(userID, "remove", <<>>)

RunUpdateCall(userID) ==
    /\ call[userID].pc = "pending" /\ call[userID].op = "update"
    /\ LET res == UpdateLeaderboardDataOn(files, config, call[userID].boarUser) IN
       /\ files' = res.files
       /\ call' = [call EXCEPT ![userID].pc = "done", ![userID].threw = res.threw,
                               ![userID].ran = NumRan + 1]
    /\ UNCHANGED <<config, users, now, last>>

RunRemoveCall(userID) ==
    /\ call[userID].pc = "pending" /\ call[userID].op = "remove"
    /\ LET res == RemoveLeaderboardUserOn(files, config, userID) IN
       /\ files' = res.files
       /\ call' = [call EXCEPT ![userID].pc = "done", ![userID].threw = res.threw,
                               ![userID].ran = NumRan + 1]
    /\ UNCHANGED <<config, users, now, last>>

NextLoop ==
    \/ \E userID \in Users, a \in Stats : \E b \in {0, a} : IssueUpdate(userID, a, b)
    \/ \E userID \in Users : IssueRemove(userID)
    \/ \E userID \in Users : RunUpdateCall(userID)
    \/ \E userID \in Users : RunRemoveCall(userID)

SpecLoop == InitLoop /\ [][NextLoop]_vars

\* The files after the calls of users u, u + 1, ... run one after another
\* on fs, in the order of the user IDs.
RECURSIVE SerialFrom(_, _)
SerialFrom(fs, u) ==
    IF u \notin Users THEN fs
    ELSE CHOOSE result \in
            {SerialFrom(next, u + 1) :
                next \in {IF call[u].op = "update"
                          THEN UpdateLeaderboardDataOn(fs, config, call[u].boarUser).files
                          ELSE IF call[u].op = "remove"
                          THEN RemoveLeaderboardUserOn(fs, config, u).files
                          ELSE fs}} : TRUE

(***************************************************************************)
(* C23: in one event loop, any interleaving of concurrently issued         *)
(* updateLeaderboardData and removeLeaderboardUser calls for different     *)
(* users loses no update: once all calls have completed, the persisted     *)
(* leaderboard document is the one the calls produce when run one after    *)
(* another, it holds the recomputed entries of every updated user and no   *)
(* entry of a removed user on the boards removeLeaderboardUser deletes     *)
(* from (for the calls that did not throw on a missing board).             *)
(***************************************************************************)
C23_NoLostUpdate ==
    (last.op = "batch" /\ AllDone) =>
        /\ files = SerialFrom(last.pre, 1)
        /\ \A u \in Users :
              (call[u].pc = "done" /\ ~call[u].threw) =>
                  /\ call[u].op = "update" =>
                        ReflectsEveryMetric(files["Leaderboards"], call[u].boarUser, config)
                  /\ call[u].op = "remove" =>
                        \A i \in DOMAIN RemoveEntryBoards :
                            ~HasEntry(RemoveEntryBoards[i], u)

\* Two calls issued together on boards that held both users: the update of
\* user 1 ran after the remove of user 2 (against the order of their IDs),
\* and both effects are in the document.
C23_Witness ==
    /\ last.op = "batch" /\ AllDone
    /\ call[1].op = "update" /\ call[2].op = "remove"
    /\ ~call[1].threw /\ ~call[2].threw
    /\ call[2].ran = 1 /\ call[1].ran = 2
    /\ last.pre["Leaderboards"].status = "ok"
    /\ 2 \in DOMAIN Get(last.pre["Leaderboards"].data, "bucks").userData
    /\ 1 \notin DOMAIN Get(last.pre["Leaderboards"].data, "bucks").userData
    /\ HasEntry("bucks", 1)
    /\ ~HasEntry("bucks", 2)

(***************************************************************************)
(* Repeated reconciliation of the catalogue after a powerup was retired.   *)
(* The configuration holds gift only; the stored catalogue still holds     *)
(* clone with its order books.  Every call is getGlobalData(Items, true)   *)
(* on a disk that takes or refuses the write of line 171.  last records    *)
(* the catalogue and the profiles before the first call, the number of     *)
(* calls, and the number of calls that ran the compensation loops on an    *)
(* outstanding order.                                                      *)
(***************************************************************************)
MaxCalls == 3

RetiredConfig == [StoreConfig EXCEPT !.powerups = <<"gift">>]

\* The stored catalogue holds orders on a powerup the configuration lacks.
HoldsRetiredOrders(document, cfg) ==
    /\ document.status = "ok"
    /\ \E i \in DOMAIN document.data.powerups :
          /\ ~Includes(cfg.powerups, document.data.powerups[i][1])
          /\ \/ document.data.powerups[i][2].buyers # <<>>
             \/ document.data.powerups[i][2].sellers # <<>>

NoRetireCall == [op |-> "none", disk |-> "ok", failed |-> FALSE, calls |-> 0,
                 paid |-> 0, pre |-> <<>>, preUsers |-> <<>>]

InitRetire ==
    /\ config = RetiredConfig
    /\ \E ks \in KeyOrders(PowerupIDs), book \in ItemDatas :
          files = [NoFiles EXCEPT !["Items"] =
                      Document([powerups |->
                          [i \in DOMAIN ks |->
                              <<ks[i], IF ks[i] = "clone" THEN book ELSE NewItemData>>]])]
    /\ users = [u \in Users |-> NewUserData]
    /\ now = 21 * TicksPerDay
    /\ last = [NoRetireCall EXCEPT !.pre = files["Items"], !.preUsers = users]
    /\ call = NoDraw

GetItemsUpdating(disk) ==
    /\ last.calls < MaxCalls
    /\ LET out == GetGlobalDataWith(files, users, config, now, "Items", TRUE, <<>>, disk) IN
       /\ files' = out.files
       /\ users' = out.users
       /\ last' = [last EXCEPT !.op = "get", !.disk = disk, !.failed = out.failed,
                      !.calls = @ + 1,
                      !.paid = IF HoldsRetiredOrders(files["Items"], config)
                               THEN @ + 1 ELSE @]
    /\ UNCHANGED <<config, now, call>>

NextRetire == \E disk \in Disks : GetItemsUpdating(disk)

SpecRetire == InitRetire /\ [][NextRetire]_vars

(***************************************************************************)
(* C24: over any sequence of getGlobalData(Items, updating = true) calls   *)
(* with a configuration from which a powerup has been retired, including   *)
(* sequences in which the catalogue write at the end of a call fails, each *)
(* outstanding order on the retired powerup is compensated to its user     *)
(* exactly once: after the first call the compensation has run once, and   *)
(* the profiles are the ones a single compensation leaves.                 *)
(***************************************************************************)
C24_CompensatedExactlyOnce ==
    (last.calls > 0 /\ HoldsRetiredOrders(last.pre, config)) =>
        /\ last.paid = 1
        /\ users = ReconcileItems(last.pre.data, last.preUsers, config).users

\* Two calls, the first on a failing disk: a buyer of the retired powerup
\* holds twice the refund of the unfilled part of the order.
C24_PaidTwice ==
    /\ last.calls = 2 /\ last.paid = 2
    /\ \E i \in DOMAIN last.pre.data.powerups :
          /\ last.pre.data.powerups[i][1] = "clone"
          /\ LET buyers == last.pre.data.powerups[i][2].buyers IN
             /\ Len(buyers) = 1
             /\ last.pre.data.powerups[i][2].sellers = <<>>
             /\ buyers[1].num > buyers[1].filledAmount
             /\ users[buyers[1].userID].stats.general.boarScore =
                   2 * (buyers[1].num - buyers[1].filledAmount) * buyers[1].price

(***************************************************************************)
(* handleCooldown (GeneralFunctions.ts).  call holds the module-level      *)
(* cooldowns object (command name -> array of user IDs, created on the     *)
(* first call of the command) and the pending 5-second timers, which fire  *)
(* in the order they were set since all have the same delay.  last records *)
(* the last call or timer callback, the array it found, and whether a      *)
(* timer of the same command and user was pending beforehand.              *)
(***************************************************************************)
CommandNames == {"daily", "collection"}

\* Array.prototype.indexOf, counting from 0; -1 when absent.
IndexOf(list, x) ==
    IF Includes(list, x)
    THEN (CHOOSE i \in DOMAIN list : list[i] = x /\ \A j \in 1..(i - 1) : list[j] # x) - 1
    ELSE -1

\* list.splice(index, 1): a negative index counts from the end of the array.
SpliceOne(list, index) ==
    LET start == IF index < 0
                 THEN (IF Len(list) + index < 0 THEN 0 ELSE Len(list) + index)
                 ELSE (IF index > Len(list) THEN Len(list) ELSE index)
    IN  IF start < Len(list)
        THEN [removed |-> <<list[start + 1]>>,
              rest |-> [k \in 1..(Len(list) - 1) |->
                            IF k <= start THEN list[k] ELSE list[k + 1]]]
        ELSE [removed |-> <<>>, rest |-> list]

\* handleCooldown up to its return: the array is created when missing; a
\* user in the array gets the cooldown reply (which may reject) and true;
\* otherwise the user is pushed, a timer is set and false is returned.
HandleCooldownOn(cooldowns, timers, commandName, userID, replyFails) ==
    LET created == IF Has(cooldowns, commandName) THEN cooldowns
                   ELSE Put(cooldowns, commandName, <<>>)
        list == Get(created, commandName)
    IN  IF Includes(list, userID)
        THEN [cooldowns |-> created, timers |-> timers,
              returned |-> IF replyFails THEN "rejected" ELSE "true"]
        ELSE [cooldowns |-> Put(created, commandName, Append(list, userID)),
              timers |-> Append(timers, [commandName |-> commandName, userID |-> userID]),
              returned |-> "false"]

\* The callback removing the last element instead of the user's.
TimerCallbackPops(cooldowns, commandName, userID) ==
    LET list == Get(cooldowns, commandName)
        spliced == SpliceOne(list, -1)
    IN  [cooldowns |-> Put(cooldowns, commandName, spliced.rest),
         removed |-> spliced.removed]

\* The timer callback: indexOf, then splice(index, 1).
TimerCallbackOn(cooldowns, commandName, userID) ==
    LET list == Get(cooldowns, commandName)
        index == IndexOf(list, userID)
        spliced == SpliceOne(list, index)
    IN  [cooldowns |-> Put(cooldowns, commandName, spliced.rest),
         removed |-> spliced.removed]

NoCooldowns == [cooldowns |-> <<>>, timers |-> <<>>]

NoCooldownCall == [op |-> "none", commandName |-> "", userID |-> NoUser,
                   returned |-> "", pending |-> FALSE, before |-> <<>>, removed |-> <<>>]

TimerPending(commandName, userID) ==
    Includes(call.timers, [commandName |-> commandName, userID |-> userID])

CooldownList(commandName) ==
    IF Has(call.cooldowns, commandName) THEN Get(call.cooldowns, commandName) ELSE <<>>

OnCooldown(commandName, userID) == Includes(CooldownList(commandName), userID)

InitCooldown ==
    /\ config = BaseConfig
    /\ files = NoFiles
    /\ users = <<>>
    /\ now = 0
    /\ last = NoCooldownCall
    /\ call = NoCooldowns

HandleCooldown(commandName, userID, replyFails) ==
    LET res == HandleCooldownOn(call.cooldowns, call.timers, commandName, userID,
                                replyFails) IN
    /\ call' = [cooldowns |-> res.cooldowns, timers |-> res.timers]
    /\ last' = [NoCooldownCall EXCEPT !.op = "handle", !.commandName = commandName,
                   !.userID = userID, !.returned = res.returned,
                   !.pending = TimerPending(commandName, userID),
                   !.before = CooldownList(commandName)]
    /\ UNCHANGED <<config, files, users, now>>

\* The oldest timer is due: its callback runs.
TimerFires ==
    /\ call.timers # <<>>
    /\ LET timer == Head(call.timers)
           res == TimerCallbackOn(call.cooldowns, timer.commandName, timer.userID)
       IN  /\ call' = [cooldowns |-> res.cooldowns, timers |-> Tail(call.timers)]
           /\ last' = [NoCooldownCall EXCEPT !.op = "timer",
                          !.commandName = timer.commandName, !.userID = timer.userID,
                          !.before = CooldownList(timer.commandName),
                          !.removed = res.removed]
    /\ UNCHANGED <<config, files, users, now>>

NextCooldown ==
    \/ \E commandName \in CommandNames, userID \in Users, replyFails \in BOOLEAN :
            HandleCooldown(commandName, userID, replyFails)
    \/ TimerFires

\* setTimeout: a timer that is due is run by the event loop.
SpecCooldown == InitCooldown /\ [][NextCooldown]_vars /\ WF_vars(TimerFires)

C25_Safety ==
    /\ last.op = "handle" => (last.returned = "false" <=> ~last.pending)
    /\ \A commandName \in CommandNames :
          LET list == CooldownList(commandName) IN
          \A i, j \in DOMAIN list : list[i] = list[j] => i = j
    /\ last.op = "timer" =>
          /\ last.removed = <<last.userID>>
          /\ CooldownList(last.commandName) =
                SelectSeq(last.before, LAMBDA u : u # last.userID)
    /\ \A commandName \in CommandNames, userID \in Users :
          OnCooldown(commandName, userID) <=> TimerPending(commandName, userID)

(***************************************************************************)
(* C25: for handleCooldown, per command and user: a call is accepted       *)
(* (returns false) if and only if no earlier accepted call by the same     *)
(* user for the same command still has its timer pending; each user ID     *)
(* appears at most once in a command's cooldown list; each timer removes   *)
(* exactly its own user's entry; and every accepted call's entry is        *)
(* eventually removed, after which no timer of the user is pending, so the *)
(* user can be accepted again.                                             *)
(***************************************************************************)
C25_Cooldown ==
    /\ []C25_Safety
    /\ \A commandName \in CommandNames, userID \in Users :
          OnCooldown(commandName, userID) ~> ~OnCooldown(commandName, userID)

\* Both users were on cooldown for one command; the timer of user 1 fired
\* and removed user 1 only; user 2 is still on cooldown.
C25_Witness ==
    /\ last.op = "timer" /\ last.userID = 1
    /\ last.before = <<1, 2>>
    /\ last.removed = <<1>>
    /\ CooldownList(last.commandName) = <<2>>
    /\ TimerPending(last.commandName, 2)

====
